---- MODULE Spec2Model ----
(***************************************************************************)
(* Bounce game: the reducer of useGameState (dispatch), the game loop's    *)
(* per-frame updater (gameLoop) and the pure helpers of gameLogic.ts.      *)
(*                                                                         *)
(* Numbers.  The source computes in IEEE doubles; the model computes in    *)
(* integers:                                                               *)
(*   - lengths, positions and velocities are in hundredths of a pixel      *)
(*     (800 px = 80000), products with a coefficient are truncated to a    *)
(*     hundredth;                                                          *)
(*   - gravity and bounceCoefficient are the source's values times 100     *)
(*     (9.8 -> 980, 0.75 -> 75);                                           *)
(*   - hitPosition is in hundredths (1.0 -> 100);                          *)
(*   - multiplier is the source's value times 10 (1.5 -> 15);              *)
(*   - deltaTime is in tenths of a reference frame (1.0 -> 10);            *)
(*   - the clock (Date.now()) and the time fields are in whole seconds.    *)
(*                                                                         *)
(* Scheduling.  dispatch(action) and the game loop both call               *)
(* setGameData(updater): the updaters wait in one FIFO queue and each is   *)
(* applied to the result of the one before it.  An updater that calls      *)
(* dispatch (the game loop's does) appends to the same queue.  Event       *)
(* handlers and the frame callback read the snapshot of the last render    *)
(* (their closure), which is the snapshot at the moment the queue was last *)
(* empty; they run between renders, when no update is waiting.             *)
(*                                                                         *)
(* Left out of the snapshot: controlState's coordinates, keys and input    *)
(* type, and lastBounceTime (read by rendering only); config, which is the *)
(* same createDefaultGameConfig() in every snapshot.                       *)
(*                                                                         *)
(* Specifications.  Spec is the game as wired: the buttons of GameUI,      *)
(* the keyboard and mouse handlers of useControls and the frame callback   *)
(* drive the reducer.  SpecReducer is the reducer under any caller: any    *)
(* action and any frame, in any phase, a bounded number of times.          *)
(* SpecPowerUps is the reducer and the frame under a caller that           *)
(* dispatches the power-up and obstacle actions.  SpecSpawn is the game as *)
(* wired with the spawn effect of usePowerUps run at each render.           *)
(* SpecServer is the server's high score endpoint under concurrent         *)
(* requests.  SpecLateFrame is SpecReducer with frame callbacks that run   *)
(* between a dispatch and its application.  SpecHelpers calls the pure     *)
(* helpers of gameLogic.ts and powerUps.ts on their own, with arguments    *)
(* drawn from small sets.  SpecAchievements runs the effect of             *)
(* useAchievements with any numbers, at any time.  SpecObstacles is the    *)
(* reducer with the collision effect of useObstacles dispatching while     *)
(* other updates are still waiting.  SpecFrames is Spec with the frame     *)
(* callback recording the interval and the step of each frame.             *)
(* The variables last, bounced, priorHighScore and call are history: the   *)
(* program never reads them.                                               *)
(***************************************************************************)
EXTENDS Integers, Sequences, FiniteSets, TLC

(***************************************************************************)
(* Bounds of the model                                                     *)
(***************************************************************************)
\* the clock stops advancing here
MaxNow == 60

\* amounts of time (seconds) that may pass between two steps
ClockSteps == {60}
\* deltaTime of a frame, in tenths: 0 stands for a frame below 0.1, 30 is a
\* frame of 50 ms
DeltaTimes == {0, 30}
\* mouse x positions (hundredths of a pixel) reported while PLAYING: the
\* pointer rests over the middle of the canvas
MouseXs == {40000}
\* aim payloads a drag can produce: angle in degrees, power in percent
AimPayloads ==
  { [angle |-> 90, power |-> 8, endX |-> 40000, endY |-> 30000],
    [angle |-> 45, power |-> 100, endX |-> 50000, endY |-> 40000] }
\* length up to which a run of back-to-back BALL_BOUNCE actions is recorded
MaxRun == 5
\* number of actions a caller of the reducer dispatches, one per second
MaxDispatches == 5

(***************************************************************************)
(* gameLogic.ts: configuration                                             *)
(***************************************************************************)
\* createLevelConfigs with level 3 keeping the gravity and the time limit of level 2
createLevelConfigs_plateau ==
  << [level |-> 1, ballSpeed |-> 8, platformWidth |-> 10000, platformSpeed |-> 800,
      gravity |-> 980, bounceCoefficient |-> 75, targetBounces |-> 10, timeLimit |-> 60],
     [level |-> 2, ballSpeed |-> 10, platformWidth |-> 9000, platformSpeed |-> 900,
      gravity |-> 1000, bounceCoefficient |-> 78, targetBounces |-> 12, timeLimit |-> 55],
     [level |-> 3, ballSpeed |-> 12, platformWidth |-> 8000, platformSpeed |-> 1000,
      gravity |-> 1000, bounceCoefficient |-> 80, targetBounces |-> 15, timeLimit |-> 55],
     [level |-> 4, ballSpeed |-> 14, platformWidth |-> 7000, platformSpeed |-> 1100,
      gravity |-> 1050, bounceCoefficient |-> 82, targetBounces |-> 18, timeLimit |-> 45],
     [level |-> 5, ballSpeed |-> 16, platformWidth |-> 6000, platformSpeed |-> 1200,
      gravity |-> 1080, bounceCoefficient |-> 85, targetBounces |-> 20, timeLimit |-> 40] >>

createLevelConfigs ==
  << [level |-> 1, ballSpeed |-> 8, platformWidth |-> 10000, platformSpeed |-> 800,
      gravity |-> 980, bounceCoefficient |-> 75, targetBounces |-> 10, timeLimit |-> 60],
     [level |-> 2, ballSpeed |-> 10, platformWidth |-> 9000, platformSpeed |-> 900,
      gravity |-> 1000, bounceCoefficient |-> 78, targetBounces |-> 12, timeLimit |-> 55],
     [level |-> 3, ballSpeed |-> 12, platformWidth |-> 8000, platformSpeed |-> 1000,
      gravity |-> 1020, bounceCoefficient |-> 80, targetBounces |-> 15, timeLimit |-> 50],
     [level |-> 4, ballSpeed |-> 14, platformWidth |-> 7000, platformSpeed |-> 1100,
      gravity |-> 1050, bounceCoefficient |-> 82, targetBounces |-> 18, timeLimit |-> 45],
     [level |-> 5, ballSpeed |-> 16, platformWidth |-> 6000, platformSpeed |-> 1200,
      gravity |-> 1080, bounceCoefficient |-> 85, targetBounces |-> 20, timeLimit |-> 40] >>

createDefaultGameConfig ==
  [canvasWidth |-> 80000, canvasHeight |-> 60000, ballRadius |-> 2000,
   platformHeight |-> 1500, platformY |-> 5000, maxVelocity |-> 2000,
   initialBallY |-> 0, levels |-> createLevelConfigs]

createInitialBallPhysics(config, levelConfig) ==
  [position |-> [x |-> config.canvasWidth \div 2,
                 y |-> config.canvasHeight - config.platformY - config.platformHeight
                       - config.ballRadius - 1000],
   velocity |-> [vx |-> 0, vy |-> 0],
   radius |-> config.ballRadius,
   gravity |-> levelConfig.gravity,
   bounceCoefficient |-> levelConfig.bounceCoefficient,
   maxVelocity |-> config.maxVelocity]

createInitialPlatform(config, levelConfig) ==
  [x |-> config.canvasWidth \div 2,
   y |-> config.canvasHeight - config.platformY,
   width |-> levelConfig.platformWidth,
   height |-> config.platformHeight,
   speed |-> levelConfig.platformSpeed]

createInitialCollisionState ==
  [wall |-> FALSE, ceiling |-> FALSE, platform |-> FALSE, floor |-> FALSE, hitPosition |-> 0]

\* createInitialScoreData with one life fewer
createInitialScoreData_twoLives ==
  [score |-> 0, lives |-> 2, level |-> 1, highScore |-> 0, bounceCount |-> 0,
   timeElapsed |-> 0, multiplier |-> 10, consecutiveBounces |-> 0, comboCount |-> 0]

createInitialScoreData ==
  [score |-> 0, lives |-> 3, level |-> 1, highScore |-> 0, bounceCount |-> 0,
   timeElapsed |-> 0, multiplier |-> 10, consecutiveBounces |-> 0, comboCount |-> 0]

createInitialAimData(config) ==
  [angle |-> 45, power |-> 8,
   startX |-> config.canvasWidth \div 2,
   startY |-> config.canvasHeight - config.platformY - config.platformHeight - config.ballRadius,
   endX |-> config.canvasWidth \div 2,
   endY |-> config.canvasHeight - config.platformY - config.platformHeight - config.ballRadius]

createInitialControlState == [isDragging |-> FALSE]

(***************************************************************************)
(* gameLogic.ts: arithmetic helpers                                        *)
(***************************************************************************)
Min(a, b) == IF a <= b THEN a ELSE b
Max(a, b) == IF a >= b THEN a ELSE b
Abs(a) == IF a >= 0 THEN a ELSE -a

clamp(value, min, max) == Max(min, Min(value, max))

\* v * c / d truncated toward zero (the model's rounding of a double product)
Scaled(v, c, d) == IF v >= 0 THEN (v * c) \div d ELSE -(((-v) * c) \div d)

\* Math.cos and Math.sin of a whole number of degrees, in thousandths
Cos(angle) ==
  CASE angle = 0 -> 1000 [] angle = 45 -> 707 [] angle = 90 -> 0
    [] angle = 135 -> -707 [] angle = 180 -> -1000
Sin(angle) ==
  CASE angle = 0 -> 0 [] angle = 45 -> 707 [] angle = 90 -> 1000
    [] angle = 135 -> 707 [] angle = 180 -> 0

(***************************************************************************)
(* gameLogic.ts: physics                                                   *)
(***************************************************************************)
\* The source mutates ball.position and ball.velocity in place and returns a
\* ball that shares them: the returned value is also the new content of the
\* argument.
updateBallPhysics(ball, deltaTime) ==
  LET vy1 == ball.velocity.vy + Scaled(ball.gravity, deltaTime, 100)
      x1 == ball.position.x + Scaled(ball.velocity.vx, deltaTime, 10)
      y1 == ball.position.y + Scaled(vy1, deltaTime, 10)
  IN [ball EXCEPT !.position = [x |-> x1, y |-> y1],
                  !.velocity = [vx |-> clamp(ball.velocity.vx, -ball.maxVelocity, ball.maxVelocity),
                                vy |-> clamp(vy1, -ball.maxVelocity, ball.maxVelocity)]]

launchBall(ball, angle, power, config) ==
  LET launchSpeed == power * (config.maxVelocity \div 100)
  IN [ball EXCEPT !.velocity = [vx |-> Scaled(launchSpeed, Cos(angle), 1000),
                                vy |-> -Scaled(launchSpeed, Sin(angle), 1000)]]

\* checkWallCollision without its right-wall branch
checkWallCollision_leftOnly(ball, config) ==
  IF ball.position.x - ball.radius < 0
  THEN [hit |-> TRUE, x |-> ball.radius,
        newVelocity |-> [ball.velocity EXCEPT !.vx = -Scaled(@, ball.bounceCoefficient, 100)]]
  ELSE [hit |-> FALSE, x |-> ball.position.x, newVelocity |-> ball.velocity]

\* hit, newVelocity, and x: the value the source leaves in ball.position.x
checkWallCollision(ball, config) ==
  IF ball.position.x - ball.radius < 0
  THEN [hit |-> TRUE, x |-> ball.radius,
        newVelocity |-> [ball.velocity EXCEPT !.vx = -Scaled(@, ball.bounceCoefficient, 100)]]
  ELSE IF ball.position.x + ball.radius > config.canvasWidth
  THEN [hit |-> TRUE, x |-> config.canvasWidth - ball.radius,
        newVelocity |-> [ball.velocity EXCEPT !.vx = -Scaled(@, ball.bounceCoefficient, 100)]]
  ELSE [hit |-> FALSE, x |-> ball.position.x, newVelocity |-> ball.velocity]

\* hit, newVelocity, and y: the value the source leaves in ball.position.y
checkCeilingCollision(ball) ==
  IF ball.position.y - ball.radius < 0
  THEN [hit |-> TRUE, y |-> ball.radius,
        newVelocity |-> [ball.velocity EXCEPT !.vy = -Scaled(@, ball.bounceCoefficient, 100)]]
  ELSE [hit |-> FALSE, y |-> ball.position.y, newVelocity |-> ball.velocity]

\* hit, newVelocity, hitPosition, and y: the value left in ball.position.y
checkPlatformCollision(ball, platform) ==
  IF /\ ball.position.x + ball.radius > platform.x - platform.width \div 2
     /\ ball.position.x - ball.radius < platform.x + platform.width \div 2
     /\ ball.position.y + ball.radius > platform.y - platform.height \div 2
     /\ ball.position.y - ball.radius < platform.y + platform.height \div 2
     /\ ball.velocity.vy > 0
  THEN LET hitPoint == ball.position.x - platform.x
           hitPosition == Scaled(hitPoint, 100, platform.width \div 2)
       IN [hit |-> TRUE,
           y |-> platform.y - platform.height \div 2 - ball.radius,
           hitPosition |-> hitPosition,
           newVelocity |-> [vx |-> ball.velocity.vx + hitPosition * 2,
                            vy |-> -Scaled(ball.velocity.vy, ball.bounceCoefficient, 100)]]
  ELSE [hit |-> FALSE, y |-> ball.position.y, hitPosition |-> 0,
        newVelocity |-> ball.velocity]

checkFloorCollision(ball, config) ==
  ball.position.y + ball.radius > config.canvasHeight

\* updatePlatformPosition without the 10 px buffer
updatePlatformPosition_noBuffer(platform, targetX, config) ==
  LET halfWidth == platform.width \div 2
      minX == halfWidth
      maxX == config.canvasWidth - halfWidth
  IN [platform EXCEPT !.x = clamp(targetX, minX, maxX)]

updatePlatformPosition(platform, targetX, config) ==
  LET halfWidth == platform.width \div 2
      minX == halfWidth
      maxX == config.canvasWidth - halfWidth
  IN [platform EXCEPT !.x = clamp(targetX, minX + 1000, maxX - 1000)]

(***************************************************************************)
(* gameLogic.ts: scoring                                                   *)
(***************************************************************************)
\* calculateBounceScore with the bonus growing towards the platform's edges
calculateBounceScore_edgeBonus(surface, hitPosition, multiplier) ==
  LET baseScore == 1000
      bonus == IF surface = "platform" THEN Min(100, Abs(hitPosition)) * 5 ELSE 0
  IN ((baseScore + bonus) * multiplier) \div 1000

calculateBounceScore(surface, hitPosition, multiplier) ==
  LET baseScore == 1000
      bonus == IF surface = "platform" THEN Max(0, 100 - Abs(hitPosition)) * 5 ELSE 0
  IN ((baseScore + bonus) * multiplier) \div 1000

\* calculateComboMultiplier falling back to 1 beyond 10 bounces
calculateComboMultiplier_wraps(consecutiveBounces) ==
  IF consecutiveBounces <= 1 THEN 10
  ELSE IF consecutiveBounces <= 3 THEN 15
  ELSE IF consecutiveBounces <= 5 THEN 20
  ELSE IF consecutiveBounces <= 10 THEN 25
  ELSE 10

\* calculateComboMultiplier with every step one bounce early
calculateComboMultiplier_early(consecutiveBounces) ==
  IF consecutiveBounces <= 0 THEN 10
  ELSE IF consecutiveBounces <= 2 THEN 15
  ELSE IF consecutiveBounces <= 4 THEN 20
  ELSE IF consecutiveBounces <= 9 THEN 25
  ELSE 30

calculateComboMultiplier(consecutiveBounces) ==
  IF consecutiveBounces <= 1 THEN 10
  ELSE IF consecutiveBounces <= 3 THEN 15
  ELSE IF consecutiveBounces <= 5 THEN 20
  ELSE IF consecutiveBounces <= 10 THEN 25
  ELSE 30

\* updateScoreData scoring the bounce with the multiplier it leaves
updateScoreData_newMultiplier(currentScore, bounceScore, surface, hitPosition) ==
  LET newConsecutiveBounces ==
        IF surface = "platform" THEN currentScore.consecutiveBounces + 1 ELSE 0
      newMultiplier == calculateComboMultiplier(newConsecutiveBounces)
      newComboCount ==
        IF newConsecutiveBounces > currentScore.consecutiveBounces
        THEN currentScore.comboCount + 1 ELSE currentScore.comboCount
  IN [currentScore EXCEPT !.score = currentScore.score
                                      + calculateBounceScore(surface, hitPosition, newMultiplier),
                          !.bounceCount = currentScore.bounceCount + 1,
                          !.consecutiveBounces = newConsecutiveBounces,
                          !.multiplier = newMultiplier,
                          !.comboCount = newComboCount]

\* updateScoreData counting a combo on every bounce
updateScoreData_countsEvery(currentScore, bounceScore, surface, hitPosition) ==
  LET newConsecutiveBounces ==
        IF surface = "platform" THEN currentScore.consecutiveBounces + 1 ELSE 0
      newMultiplier == calculateComboMultiplier(newConsecutiveBounces)
  IN [currentScore EXCEPT !.score = currentScore.score + bounceScore,
                          !.bounceCount = currentScore.bounceCount + 1,
                          !.consecutiveBounces = newConsecutiveBounces,
                          !.multiplier = newMultiplier,
                          !.comboCount = currentScore.comboCount + 1]

\* updateScoreData with the multiplier taken from the streak before the bounce
updateScoreData_staleMultiplier(currentScore, bounceScore, surface, hitPosition) ==
  LET newConsecutiveBounces ==
        IF surface = "platform" THEN currentScore.consecutiveBounces + 1 ELSE 0
  IN [currentScore EXCEPT !.score = currentScore.score + bounceScore,
                          !.bounceCount = currentScore.bounceCount + 1,
                          !.consecutiveBounces = newConsecutiveBounces,
                          !.multiplier = calculateComboMultiplier(currentScore.consecutiveBounces),
                          !.comboCount = currentScore.comboCount]

updateScoreData(currentScore, bounceScore, surface, hitPosition) ==
  LET newConsecutiveBounces ==
        IF surface = "platform" THEN currentScore.consecutiveBounces + 1 ELSE 0
      newMultiplier == calculateComboMultiplier(newConsecutiveBounces)
      newComboCount ==
        IF newConsecutiveBounces > currentScore.consecutiveBounces
        THEN currentScore.comboCount + 1 ELSE currentScore.comboCount
  IN [currentScore EXCEPT !.score = currentScore.score + bounceScore,
                          !.bounceCount = currentScore.bounceCount + 1,
                          !.consecutiveBounces = newConsecutiveBounces,
                          !.multiplier = newMultiplier,
                          !.comboCount = newComboCount]

resetCombo(scoreData) ==
  [scoreData EXCEPT !.consecutiveBounces = 0, !.multiplier = 10]

\* loseLife without the floor of Math.max
loseLife_unclamped(scoreData) ==
  [scoreData EXCEPT !.lives = scoreData.lives - 1]

\* loseLife starting the bounce count over
loseLife_restartsBounces(scoreData) ==
  [scoreData EXCEPT !.lives = Max(0, scoreData.lives - 1), !.bounceCount = 0]

loseLife(scoreData) ==
  [scoreData EXCEPT !.lives = Max(0, scoreData.lives - 1)]

\* nextLevel that skips a level
nextLevel_skips(scoreData) ==
  [scoreData EXCEPT !.level = scoreData.level + 2, !.bounceCount = 0, !.timeElapsed = 0,
                    !.consecutiveBounces = 0, !.multiplier = 10]

\* nextLevel that carries the streak and its multiplier into the new level
nextLevel_keepsStreak(scoreData) ==
  [scoreData EXCEPT !.level = scoreData.level + 1, !.bounceCount = 0, !.timeElapsed = 0]

nextLevel(scoreData) ==
  [scoreData EXCEPT !.level = scoreData.level + 1, !.bounceCount = 0, !.timeElapsed = 0,
                    !.consecutiveBounces = 0, !.multiplier = 10]

\* updateHighScore that keeps the stored high score
updateHighScore_kept(scoreData) ==
  scoreData

updateHighScore(scoreData) ==
  [scoreData EXCEPT !.highScore = Max(scoreData.highScore, scoreData.score)]

(***************************************************************************)
(* powerUps.ts: obstacles and achievements                                 *)
(***************************************************************************)
\* createObstacle: the options are spread over the other fields; the id, built
\* from the type, the time and a random number, is modelled by the type
createObstacle(type, x, y, width, height, options) ==
  options @@ [id |-> type, type |-> type, x |-> x, y |-> y, width |-> width,
              height |-> height]

\* the obstacles of one kind that spawnLevelObstacles pushes
StaticBlocks(level, config) ==
  IF level >= 2
  THEN [i \in 1..Min(level - 1, 3) |->
          createObstacle("static-block", (config.canvasWidth \div 4) * i,
                         config.canvasHeight \div 2, 6000, 2000, <<>>)]
  ELSE <<>>

MovingBarriers(level, config) ==
  IF level >= 3
  THEN <<createObstacle("moving-barrier", config.canvasWidth \div 2,
                        config.canvasHeight \div 3, 8000, 1500, [vx |-> 200, vy |-> 0])>>
  ELSE <<>>

\* spawnLevelObstacles with one breakable brick
BreakableBricks_one(level, config) ==
  IF level >= 4
  THEN <<createObstacle("breakable-brick", Scaled(config.canvasWidth, 2, 10),
                        Scaled(config.canvasHeight, 3, 10), 4000, 2000,
                        [health |-> 2, maxHealth |-> 2, points |-> 50])>>
  ELSE <<>>

BreakableBricks(level, config) ==
  IF level >= 4
  THEN [i \in 1..2 |->
          createObstacle("breakable-brick",
                         Scaled(config.canvasWidth, 2, 10)
                           + (i - 1) * Scaled(config.canvasWidth, 6, 10),
                         Scaled(config.canvasHeight, 3, 10), 4000, 2000,
                         [health |-> 2, maxHealth |-> 2, points |-> 50])]
  ELSE <<>>

SpeedBoosts(level, config) ==
  IF level >= 5
  THEN <<createObstacle("speed-boost", config.canvasWidth \div 2,
                        Scaled(config.canvasHeight, 7, 10), 10000, 3000, <<>>)>>
  ELSE <<>>

spawnLevelObstacles(level, config) ==
  StaticBlocks(level, config) \o MovingBarriers(level, config)
    \o BreakableBricks(level, config) \o SpeedBoosts(level, config)

\* createAchievements, without the name, the description and the icon;
\* unlockedAt is <<>> while undefined
createAchievements ==
  << [id |-> "first_bounce", unlocked |-> FALSE, progress |-> 0, target |-> 1,
      unlockedAt |-> <<>>],
     [id |-> "combo_master", unlocked |-> FALSE, progress |-> 0, target |-> 50,
      unlockedAt |-> <<>>],
     [id |-> "level_5_complete", unlocked |-> FALSE, progress |-> 0, target |-> 5,
      unlockedAt |-> <<>>],
     [id |-> "high_scorer", unlocked |-> FALSE, progress |-> 0, target |-> 10000,
      unlockedAt |-> <<>>],
     [id |-> "power_up_collector", unlocked |-> FALSE, progress |-> 0, target |-> 6,
      unlockedAt |-> <<>>],
     [id |-> "bounce_king", unlocked |-> FALSE, progress |-> 0, target |-> 100,
      unlockedAt |-> <<>>] >>

\* the progress one achievement takes from the game's numbers
achievementProgress(achievement, data) ==
  CASE achievement.id = "first_bounce" -> Max(achievement.progress, data.bounceCount)
    [] achievement.id = "combo_master"
         -> Max(achievement.progress, data.scoreData.consecutiveBounces)
    [] achievement.id = "level_5_complete" -> Max(achievement.progress, data.level)
    [] achievement.id = "high_scorer" -> Max(achievement.progress, data.scoreData.score)
    [] achievement.id = "power_up_collector"
         -> Max(achievement.progress, Cardinality(data.usedPowerUps))
    [] achievement.id = "bounce_king" -> Max(achievement.progress, data.bounceCount)
    [] OTHER -> achievement.progress

\* checkAchievements with the progress overwritten by the game's number
checkAchievements_overwrites(list, data, currentTime) ==
  [i \in 1..Len(list) |->
     LET achievement == list[i]
         progress == achievementProgress([achievement EXCEPT !.progress = 0], data)
     IN [achievement EXCEPT
           !.progress = progress,
           !.unlocked = achievement.unlocked \/ progress >= achievement.target,
           !.unlockedAt = IF ~achievement.unlocked /\ progress >= achievement.target
                          THEN <<currentTime>> ELSE achievement.unlockedAt]]

checkAchievements(list, data, currentTime) ==
  [i \in 1..Len(list) |->
     LET achievement == list[i]
         progress == achievementProgress(achievement, data)
     IN [achievement EXCEPT
           !.progress = progress,
           !.unlocked = achievement.unlocked \/ progress >= achievement.target,
           !.unlockedAt = IF ~achievement.unlocked /\ progress >= achievement.target
                          THEN <<currentTime>> ELSE achievement.unlockedAt]]

(***************************************************************************)
(* useGameState: the snapshot and the reducer                              *)
(***************************************************************************)
\* prev.config is createDefaultGameConfig() in every snapshot (START_GAME and
\* RESET_GAME store a fresh copy of it), so the model reads it as a constant.
config == createDefaultGameConfig

createInitialGameData ==
  [gameState |-> "MENU",
   scoreData |-> createInitialScoreData,
   ballPhysics |-> createInitialBallPhysics(config, config.levels[1]),
   platform |-> createInitialPlatform(config, config.levels[1]),
   collisionState |-> createInitialCollisionState,
   currentLevel |-> config.levels[1],
   levelStartTime |-> 0,
   aimData |-> createInitialAimData(config),
   controlState |-> createInitialControlState]

\* an action of the reducer: its type, its payload, and who dispatched it.
\* A payload is a record; where the source's payload is a bare value
\* (UPDATE_PLATFORM_POSITION's number, SET_GAME_STATE's phase) it is the
\* record's one field.
Action(type, payload, src) == [type |-> type, payload |-> payload, src |-> src]
NoPayload == [none |-> TRUE]

\* config.levels.find(level => level.level === n): found or not
HasLevel(n) == \E i \in 1..Len(config.levels) : config.levels[i].level = n
FindLevel(n) == config.levels[CHOOSE i \in 1..Len(config.levels) : config.levels[i].level = n]

\* the updater dispatch(action) hands to setGameData; currentTime is Date.now()
dispatch(prev, action, currentTime) ==
  CASE action.type = "START_GAME" ->
         [prev EXCEPT !.gameState = "AIMING",
                      !.scoreData = createInitialScoreData,
                      !.ballPhysics = createInitialBallPhysics(config, config.levels[1]),
                      !.platform = createInitialPlatform(config, config.levels[1]),
                      !.collisionState = createInitialCollisionState,
                      !.currentLevel = config.levels[1],
                      !.levelStartTime = currentTime,
                      !.aimData = createInitialAimData(config),
                      !.controlState = createInitialControlState]
    [] action.type = "ENTER_AIMING" ->
         [prev EXCEPT !.gameState = "AIMING"]
    [] action.type = "LAUNCH_BALL" ->
         [prev EXCEPT !.gameState = "PLAYING",
                      !.ballPhysics = launchBall(prev.ballPhysics, action.payload.angle,
                                                 action.payload.power, config),
                      !.levelStartTime = currentTime]
    [] action.type = "PAUSE_GAME" ->
         [prev EXCEPT !.gameState = "PAUSED"]
    [] action.type = "RESUME_GAME" ->
         [prev EXCEPT !.gameState = "PLAYING"]
    [] action.type = "RESET_GAME" ->
         [prev EXCEPT !.gameState = "MENU",
                      !.scoreData = createInitialScoreData,
                      !.ballPhysics = createInitialBallPhysics(config, config.levels[1]),
                      !.platform = createInitialPlatform(config, config.levels[1]),
                      !.collisionState = createInitialCollisionState,
                      !.currentLevel = config.levels[1],
                      !.levelStartTime = 0,
                      !.aimData = createInitialAimData(config),
                      !.controlState = createInitialControlState]
    [] action.type = "UPDATE_BALL_PHYSICS" ->
         [prev EXCEPT !.ballPhysics = action.payload]
    [] action.type = "UPDATE_PLATFORM_POSITION" ->
         [prev EXCEPT !.platform = updatePlatformPosition(prev.platform, action.payload.x, config)]
    [] action.type = "UPDATE_SCORE" ->
         [prev EXCEPT !.scoreData =
            [f \in DOMAIN prev.scoreData |->
               IF f \in DOMAIN action.payload THEN action.payload[f] ELSE prev.scoreData[f]]]
    [] action.type = "SET_GAME_STATE" ->
         [prev EXCEPT !.gameState = action.payload.gameState]
    [] action.type = "SET_COLLISION_STATE" ->
         [prev EXCEPT !.collisionState = action.payload]
    [] action.type = "BALL_BOUNCE" ->
         LET bounceScore == calculateBounceScore(action.payload.surface,
                                                 action.payload.hitPosition,
                                                 prev.scoreData.multiplier)
             newScoreData == updateScoreData(prev.scoreData, bounceScore,
                                             action.payload.surface,
                                             action.payload.hitPosition)
         IN [prev EXCEPT !.scoreData = newScoreData]
    [] action.type = "LOSE_LIFE" ->
         LET updatedScoreData == loseLife(prev.scoreData)
             newGameState == IF updatedScoreData.lives <= 0 THEN "GAME_OVER" ELSE "AIMING"
         IN [prev EXCEPT !.scoreData = updatedScoreData,
                         !.gameState = newGameState,
                         !.ballPhysics = createInitialBallPhysics(config, prev.currentLevel)]
    [] action.type = "NEXT_LEVEL" ->
         IF ~HasLevel(prev.scoreData.level + 1)
         THEN [prev EXCEPT !.gameState = "GAME_OVER",
                           !.scoreData = updateHighScore(prev.scoreData)]
         ELSE LET nextLevelConfig == FindLevel(prev.scoreData.level + 1)
                  nextScoreData == nextLevel(prev.scoreData)
              IN [prev EXCEPT !.gameState = "AIMING",
                              !.scoreData = nextScoreData,
                              !.ballPhysics = createInitialBallPhysics(config, nextLevelConfig),
                              !.platform = createInitialPlatform(config, nextLevelConfig),
                              !.currentLevel = nextLevelConfig,
                              !.levelStartTime = currentTime,
                              !.aimData = createInitialAimData(config)]
    [] action.type = "GAME_OVER" ->
         [prev EXCEPT !.gameState = "GAME_OVER",
                      !.scoreData = updateHighScore(prev.scoreData)]
    [] action.type = "UPDATE_TIME" ->
         [prev EXCEPT !.scoreData.timeElapsed = currentTime - prev.levelStartTime]
    [] action.type = "RESET_COMBO" ->
         [prev EXCEPT !.scoreData = resetCombo(prev.scoreData)]
    [] action.type = "UPDATE_AIM_DATA" ->
         [prev EXCEPT !.aimData.angle = action.payload.angle,
                      !.aimData.power = action.payload.power,
                      !.aimData.endX = action.payload.endX,
                      !.aimData.endY = action.payload.endY]
    [] action.type = "UPDATE_CONTROL_STATE" ->
         [prev EXCEPT !.controlState.isDragging = action.payload.isDragging]
    [] OTHER -> prev

(***************************************************************************)
(* useGameState: the updater of one frame of the game loop                 *)
(***************************************************************************)
\* The updater's physics and collision section: the ball after integration
\* and the three collision checks, the collision flags, the bounce actions
\* dispatched (in order), and prev as the in-place writes leave it: its
\* position object is shared with newBallPhysics, its velocity object is the
\* integrated one.
gameLoopCollisions(prev, deltaTime) ==
  LET integrated == updateBallPhysics(prev.ballPhysics, deltaTime)
      platformCollision == checkPlatformCollision(integrated, prev.platform)
      afterPlatform == [integrated EXCEPT !.position.y = platformCollision.y,
                                          !.velocity = platformCollision.newVelocity]
      wallCollision == checkWallCollision(afterPlatform, config)
      afterWall == [afterPlatform EXCEPT !.position.x = wallCollision.x,
                                         !.velocity = wallCollision.newVelocity]
      ceilingCollision == checkCeilingCollision(afterWall)
      newBallPhysics == [afterWall EXCEPT !.position.y = ceilingCollision.y,
                                          !.velocity = ceilingCollision.newVelocity]
  IN [newBallPhysics |-> newBallPhysics,
      newCollisionState |->
        [prev.collisionState EXCEPT
           !.platform = platformCollision.hit,
           !.hitPosition = IF platformCollision.hit THEN platformCollision.hitPosition ELSE @,
           !.wall = wallCollision.hit,
           !.ceiling = ceilingCollision.hit,
           !.floor = FALSE],
      bounces |->
        (IF platformCollision.hit
         THEN <<Action("BALL_BOUNCE", [surface |-> "platform",
                                        hitPosition |-> platformCollision.hitPosition], "tick")>>
         ELSE <<>>)
        \o (IF wallCollision.hit
            THEN <<Action("BALL_BOUNCE", [surface |-> "wall", hitPosition |-> 0], "tick"),
                   Action("RESET_COMBO", NoPayload, "tick")>>
            ELSE <<>>)
        \o (IF ceilingCollision.hit
            THEN <<Action("BALL_BOUNCE", [surface |-> "ceiling", hitPosition |-> 0], "tick"),
                   Action("RESET_COMBO", NoPayload, "tick")>>
            ELSE <<>>),
      written |-> [prev EXCEPT !.ballPhysics.position = newBallPhysics.position,
                               !.ballPhysics.velocity = integrated.velocity]]

\* gameLoop with the bounce target checked before the time limit and the floor
gameLoop_targetFirst(prev, deltaTime, currentTime) ==
  IF prev.gameState # "PLAYING"
  THEN [data |-> prev, emitted |-> <<>>, outcome |-> "inactive"]
  ELSE
  LET timeElapsed == currentTime - prev.levelStartTime
      c == gameLoopCollisions(prev, deltaTime)
  IN IF prev.scoreData.bounceCount >= prev.currentLevel.targetBounces
     THEN [data |-> c.written,
           emitted |-> Append(c.bounces, Action("NEXT_LEVEL", NoPayload, "target")),
           outcome |-> "target"]
     ELSE IF timeElapsed >= prev.currentLevel.timeLimit
     THEN [data |-> prev, emitted |-> <<Action("LOSE_LIFE", NoPayload, "time")>>,
           outcome |-> "time"]
     ELSE IF checkFloorCollision(c.newBallPhysics, config)
     THEN [data |-> c.written,
           emitted |-> Append(c.bounces, Action("LOSE_LIFE", NoPayload, "floor")),
           outcome |-> "floor"]
     ELSE [data |-> [prev EXCEPT !.ballPhysics = c.newBallPhysics,
                                 !.collisionState = c.newCollisionState,
                                 !.scoreData.timeElapsed = timeElapsed],
           emitted |-> c.bounces,
           outcome |-> "running"]

\* gameLoop with the bounce target checked against the count that includes the
\* frame's own bounces
gameLoop_sameFrame(prev, deltaTime, currentTime) ==
  IF prev.gameState # "PLAYING"
  THEN [data |-> prev, emitted |-> <<>>, outcome |-> "inactive"]
  ELSE
  LET timeElapsed == currentTime - prev.levelStartTime IN
  IF timeElapsed >= prev.currentLevel.timeLimit
  THEN [data |-> prev, emitted |-> <<Action("LOSE_LIFE", NoPayload, "time")>>,
        outcome |-> "time"]
  ELSE
  LET c == gameLoopCollisions(prev, deltaTime)
      bounceCount == prev.scoreData.bounceCount
                     + Cardinality({i \in 1..Len(c.bounces) : c.bounces[i].type = "BALL_BOUNCE"})
  IN IF checkFloorCollision(c.newBallPhysics, config)
     THEN [data |-> c.written,
           emitted |-> Append(c.bounces, Action("LOSE_LIFE", NoPayload, "floor")),
           outcome |-> "floor"]
     ELSE IF bounceCount >= prev.currentLevel.targetBounces
     THEN [data |-> c.written,
           emitted |-> Append(c.bounces, Action("NEXT_LEVEL", NoPayload, "target")),
           outcome |-> "target"]
     ELSE [data |-> [prev EXCEPT !.ballPhysics = c.newBallPhysics,
                                 !.collisionState = c.newCollisionState,
                                 !.scoreData.timeElapsed = timeElapsed],
           emitted |-> c.bounces,
           outcome |-> "running"]

\* gameLoop timing the level by the steps of its frames (in whole seconds)
gameLoop_frameTime(prev, deltaTime, currentTime) ==
  IF prev.gameState # "PLAYING"
  THEN [data |-> prev, emitted |-> <<>>, outcome |-> "inactive"]
  ELSE
  LET timeElapsed == prev.scoreData.timeElapsed + (deltaTime * 1667) \div 1000000 IN
  IF timeElapsed >= prev.currentLevel.timeLimit
  THEN [data |-> prev, emitted |-> <<Action("LOSE_LIFE", NoPayload, "time")>>,
        outcome |-> "time"]
  ELSE
  LET c == gameLoopCollisions(prev, deltaTime)
  IN IF checkFloorCollision(c.newBallPhysics, config)
     THEN [data |-> c.written,
           emitted |-> Append(c.bounces, Action("LOSE_LIFE", NoPayload, "floor")),
           outcome |-> "floor"]
     ELSE IF prev.scoreData.bounceCount >= prev.currentLevel.targetBounces
     THEN [data |-> c.written,
           emitted |-> Append(c.bounces, Action("NEXT_LEVEL", NoPayload, "target")),
           outcome |-> "target"]
     ELSE [data |-> [prev EXCEPT !.ballPhysics = c.newBallPhysics,
                                 !.collisionState = c.newCollisionState,
                                 !.scoreData.timeElapsed = timeElapsed],
           emitted |-> c.bounces,
           outcome |-> "running"]

\* gameLoop whose updater does not look at the phase
gameLoop_anyPhase(prev, deltaTime, currentTime) ==
  LET timeElapsed == currentTime - prev.levelStartTime IN
  IF timeElapsed >= prev.currentLevel.timeLimit
  THEN [data |-> prev, emitted |-> <<Action("LOSE_LIFE", NoPayload, "time")>>,
        outcome |-> "time"]
  ELSE
  LET c == gameLoopCollisions(prev, deltaTime)
  IN IF checkFloorCollision(c.newBallPhysics, config)
     THEN [data |-> c.written,
           emitted |-> Append(c.bounces, Action("LOSE_LIFE", NoPayload, "floor")),
           outcome |-> "floor"]
     ELSE IF prev.scoreData.bounceCount >= prev.currentLevel.targetBounces
     THEN [data |-> c.written,
           emitted |-> Append(c.bounces, Action("NEXT_LEVEL", NoPayload, "target")),
           outcome |-> "target"]
     ELSE [data |-> [prev EXCEPT !.ballPhysics = c.newBallPhysics,
                                 !.collisionState = c.newCollisionState,
                                 !.scoreData.timeElapsed = timeElapsed],
           emitted |-> c.bounces,
           outcome |-> "running"]

\* data: the snapshot the updater returns; where the source returns prev, prev
\* carries the in-place writes.  emitted: the actions the updater dispatched,
\* in order.  outcome: the return statement taken.
gameLoop(prev, deltaTime, currentTime) ==
  IF prev.gameState # "PLAYING"
  THEN [data |-> prev, emitted |-> <<>>, outcome |-> "inactive"]
  ELSE
  LET timeElapsed == currentTime - prev.levelStartTime IN
  IF timeElapsed >= prev.currentLevel.timeLimit
  THEN [data |-> prev, emitted |-> <<Action("LOSE_LIFE", NoPayload, "time")>>,
        outcome |-> "time"]
  ELSE
  LET c == gameLoopCollisions(prev, deltaTime)
  IN IF checkFloorCollision(c.newBallPhysics, config)
     THEN [data |-> c.written,
           emitted |-> Append(c.bounces, Action("LOSE_LIFE", NoPayload, "floor")),
           outcome |-> "floor"]
     ELSE IF prev.scoreData.bounceCount >= prev.currentLevel.targetBounces
     THEN [data |-> c.written,
           emitted |-> Append(c.bounces, Action("NEXT_LEVEL", NoPayload, "target")),
           outcome |-> "target"]
     ELSE [data |-> [prev EXCEPT !.ballPhysics = c.newBallPhysics,
                                 !.collisionState = c.newCollisionState,
                                 !.scoreData.timeElapsed = timeElapsed],
           emitted |-> c.bounces,
           outcome |-> "running"]

(***************************************************************************)
(* State                                                                   *)
(***************************************************************************)
VARIABLES
  gameData,   \* the snapshot held by useState
  queue,      \* updaters handed to setGameData and not yet applied
  rendered,   \* what the handlers' closures see: the snapshot of the last render
  now,        \* Date.now(), in seconds
  last,       \* history: the updater that produced the snapshot (its type, who
              \* dispatched it, a frame's outcome) and the snapshot it was applied to
  bounced,    \* history: the run of BALL_BOUNCE actions applied back to back, the
              \* first from consecutiveBounces = 0; of each its surface and the
              \* multiplier it left
  spawnTimer, \* usePowerUps: the timeout powerUpSpawnTimer.current refers to
  redis,      \* server: the string stored under the key 'highScore' (<<>>: none)
  requests,   \* server: the POST /api/game/highscore requests and how far each is
  priorHighScore, \* history: the high score stored before any request
  call,       \* the last call of a helper: the function, its arguments, its result
  achievements    \* useAchievements: the list held by useState

gameVars == <<gameData, queue, rendered, now, last, bounced>>
serverVars == <<redis, requests, priorHighScore>>
utilVars == <<call, achievements>>
vars == <<gameData, queue, rendered, now, last, bounced, spawnTimer, redis, requests,
          priorHighScore, call, achievements>>

\* the fields of the rendered snapshot that handlers and the frame callback read
Rendered(data) ==
  [gameState |-> data.gameState,
   isDragging |-> data.controlState.isDragging,
   aimData |-> data.aimData,
   score |-> data.scoreData.score]

\* the requests the server receives
MaxRequests == 3
Requests == 1..MaxRequests

\* no helper was called yet
NoCall == [fn |-> "none", args |-> NoPayload, result |-> NoPayload]

\* no timeout was ever set
NoTimer == [state |-> "idle", due |-> 0]

InitGame ==
  /\ gameData = createInitialGameData
  /\ queue = <<>>
  /\ rendered = Rendered(createInitialGameData)
  /\ now = 0
  /\ last = [type |-> "none", src |-> "none", outcome |-> "none",
             payload |-> NoPayload, prev |-> createInitialGameData]
  /\ bounced = <<>>
  /\ spawnTimer = NoTimer
  /\ call = NoCall
  /\ achievements = createAchievements

InitServer(stored) ==
  /\ redis = stored
  /\ priorHighScore = stored
  /\ requests = [r \in Requests |-> [pc |-> "new", score |-> 0, currentHigh |-> 0,
                                     success |-> FALSE]]

Init == InitGame /\ InitServer(<<>>)

\* An event handler calls dispatch once or more: the actions join the queue.
\* React applies the waiting updates and renders before the browser delivers
\* the next event or frame, so a handler finds the queue empty.
Enqueue(actions) ==
  /\ queue = <<>>
  /\ queue' = actions
  /\ UNCHANGED <<gameData, rendered, now, last, bounced, spawnTimer, serverVars, utilVars>>

(***************************************************************************)
(* GameUI: buttons                                                         *)
(***************************************************************************)
handleStartGame ==
  /\ rendered.gameState = "MENU"
  /\ Enqueue(<<Action("START_GAME", NoPayload, "ui")>>)

handleResumeGame ==
  /\ rendered.gameState = "PAUSED"
  /\ Enqueue(<<Action("RESUME_GAME", NoPayload, "ui")>>)

handleResetGame ==
  /\ rendered.gameState \in {"PAUSED", "GAME_OVER"}
  /\ Enqueue(<<Action("RESET_GAME", NoPayload, "ui")>>)

(***************************************************************************)
(* useControls: keyboard and mouse                                         *)
(***************************************************************************)
handleKeyDown ==
  \/ /\ rendered.gameState = "PLAYING"
     /\ Enqueue(<<Action("PAUSE_GAME", NoPayload, "ui")>>)
  \/ /\ rendered.gameState = "PAUSED"
     /\ Enqueue(<<Action("RESUME_GAME", NoPayload, "ui")>>)

handleMouseDown ==
  /\ rendered.gameState = "AIMING"
  /\ Enqueue(<<Action("UPDATE_CONTROL_STATE", [isDragging |-> TRUE], "ui")>>)

\* the second dispatch of the AIMING branch (UPDATE_CONTROL_STATE with the
\* pointer's coordinates) writes only fields the model leaves out
handleMouseMove ==
  \/ /\ rendered.gameState = "AIMING"
     /\ rendered.isDragging
     /\ \E p \in AimPayloads :
          /\ [angle |-> rendered.aimData.angle, power |-> rendered.aimData.power,
              endX |-> rendered.aimData.endX, endY |-> rendered.aimData.endY] # p
          /\ Enqueue(<<Action("UPDATE_AIM_DATA", p, "ui")>>)
  \/ /\ rendered.gameState = "PLAYING"
     /\ \E mouseX \in MouseXs :
          Enqueue(<<Action("UPDATE_PLATFORM_POSITION", [x |-> mouseX], "ui")>>)

handleMouseUp ==
  /\ rendered.gameState = "AIMING"
  /\ rendered.isDragging
  /\ Enqueue(<<Action("LAUNCH_BALL", [angle |-> rendered.aimData.angle,
                                      power |-> rendered.aimData.power], "ui"),
               Action("UPDATE_CONTROL_STATE", [isDragging |-> FALSE], "ui")>>)

(***************************************************************************)
(* useGameState: the frame callback and the application of the queue       *)
(***************************************************************************)
\* gameLoop(currentTime) up to its call of setGameData: one frame callback per
\* frame while the rendered phase is PLAYING
Frame ==
  /\ rendered.gameState = "PLAYING"
  /\ \E deltaTime \in DeltaTimes :
       IF deltaTime < 1
       THEN UNCHANGED vars
       ELSE Enqueue(<<Action("TICK", [deltaTime |-> deltaTime], "frame")>>)

\* the action types the switch of dispatch has a case for, and the frame's updater
HandledTypes ==
  {"START_GAME", "ENTER_AIMING", "LAUNCH_BALL", "PAUSE_GAME", "RESUME_GAME", "RESET_GAME",
   "UPDATE_BALL_PHYSICS", "UPDATE_PLATFORM_POSITION", "UPDATE_SCORE", "SET_GAME_STATE",
   "SET_COLLISION_STATE", "BALL_BOUNCE", "LOSE_LIFE", "NEXT_LEVEL", "GAME_OVER",
   "UPDATE_TIME", "RESET_COMBO", "UPDATE_AIM_DATA", "UPDATE_CONTROL_STATE", "TICK"}

\* React applies the updater at the head of the queue; a render follows when
\* no updater is left
Commit ==
  /\ queue # <<>>
  /\ LET action == Head(queue)
         result == IF action.type = "TICK"
                   THEN gameLoop(gameData, action.payload.deltaTime, now)
                   ELSE [data |-> dispatch(gameData, action, now), emitted |-> <<>>,
                         outcome |-> "none"]
     IN /\ gameData' = result.data
        /\ queue' = Tail(queue) \o result.emitted
        /\ rendered' = IF queue' = <<>> THEN Rendered(gameData') ELSE rendered
        /\ last' = IF /\ result.data = gameData
                      /\ result.emitted = <<>>
                      /\ action.type \in HandledTypes \ {"TICK"}
                   THEN last
                   ELSE [type |-> action.type, src |-> action.src, outcome |-> result.outcome,
                         payload |-> action.payload, prev |-> gameData]
        /\ bounced' = IF action.type # "BALL_BOUNCE" THEN <<>>
                      ELSE IF Len(bounced) < MaxRun
                              /\ (bounced # <<>> \/ gameData.scoreData.consecutiveBounces = 0)
                      THEN Append(bounced, [surface |-> action.payload.surface,
                                            multiplier |-> gameData'.scoreData.multiplier])
                      ELSE bounced
        /\ now' = now

\* BounceGame mounts no hook with an effect on the phase
Apply ==
  /\ Commit
  /\ UNCHANGED <<spawnTimer, serverVars, utilVars>>

\* time passes
Elapse ==
  /\ \E d \in ClockSteps : now + d <= MaxNow /\ now' = now + d
  /\ UNCHANGED <<gameData, queue, rendered, last, bounced, spawnTimer, serverVars, utilVars>>

Next ==
  \/ handleStartGame
  \/ handleResumeGame
  \/ handleResetGame
  \/ handleKeyDown
  \/ handleMouseDown
  \/ handleMouseMove
  \/ handleMouseUp
  \/ Frame
  \/ Apply
  \/ Elapse

Spec == Init /\ [][Next]_vars

(***************************************************************************)
(* The reducer under any caller: every action the action contract names    *)
(* and the reducer handles, the control-state action of the input layer,   *)
(* and frames, in every phase and in any order                             *)
(***************************************************************************)
ContractActions ==
  { Action(type, NoPayload, "caller") :
      type \in {"START_GAME", "ENTER_AIMING", "PAUSE_GAME", "RESUME_GAME", "RESET_GAME",
                "LOSE_LIFE", "NEXT_LEVEL", "GAME_OVER", "UPDATE_TIME", "RESET_COMBO"} }
  \cup { Action("BALL_BOUNCE", [surface |-> surface, hitPosition |-> 0], "caller") :
           surface \in {"platform", "wall", "ceiling"} }
  \cup { Action("LAUNCH_BALL", [angle |-> 90, power |-> 8], "caller"),
         Action("UPDATE_PLATFORM_POSITION", [x |-> 0], "caller"),
         Action("UPDATE_AIM_DATA", [angle |-> 45, power |-> 100, endX |-> 50000,
                                    endY |-> 40000], "caller"),
         Action("UPDATE_CONTROL_STATE", [isDragging |-> TRUE], "caller"),
         Action("TICK", [deltaTime |-> 30], "caller") }

Dispatch ==
  /\ queue = <<>>
  /\ now < MaxDispatches
  /\ \E action \in ContractActions : queue' = <<action>>
  /\ now' = now + 1
  /\ UNCHANGED <<gameData, rendered, last, bounced, spawnTimer, serverVars, utilVars>>

NextReducer ==
  \/ Dispatch
  \/ Apply

SpecReducer == Init /\ [][NextReducer]_vars

(***************************************************************************)
(* The reducer under any caller, with late frames: a frame callback whose  *)
(* closure still holds PLAYING runs after an action was dispatched and     *)
(* before React applied it, so its updater waits behind that action and    *)
(* is applied to whatever phase the action leaves.  This allows more       *)
(* interleavings than React's batching of event handlers does.             *)
(***************************************************************************)
\* the late frames are among the first MaxLateFrame dispatches
MaxLateFrame == 3

lateFrame ==
  /\ rendered.gameState = "PLAYING"
  /\ now <= MaxLateFrame
  /\ Len(queue) = 1
  /\ Head(queue).src = "caller"
  /\ \E deltaTime \in DeltaTimes :
       /\ deltaTime >= 1
       /\ queue' = Append(queue, Action("TICK", [deltaTime |-> deltaTime], "frame"))
  /\ UNCHANGED <<gameData, rendered, now, last, bounced, spawnTimer, serverVars, utilVars>>

NextLateFrame ==
  \/ Dispatch
  \/ lateFrame
  \/ Apply

SpecLateFrame == Init /\ [][NextLateFrame]_vars

(***************************************************************************)
(* The reducer and the frame under a caller that dispatches the power-up   *)
(* and obstacle actions of the action contract.  BounceGame mounts         *)
(* useGameState and useControls only, so the caller stands for usePowerUps *)
(* and useObstacles: what they dispatch reaches the same reducer.          *)
(***************************************************************************)
\* two of the six types spawnRandomPowerUp draws from: the shield, which lasts
\* a number of bounces, and one that lasts its duration
PowerUpTypes == {"shield", "slow-mo"}

\* createPowerUp at a place spawnRandomPowerUp can choose; the duration is the
\* caller's argument, in seconds
createPowerUp(type, currentTime) ==
  [id |-> type, type |-> type, x |-> 40000, y |-> 49000,
   duration |-> 2, startTime |-> currentTime, active |-> FALSE, collected |-> FALSE]

\* createObstacle: a breakable brick as spawnLevelObstacles makes them (40 by 20,
\* health 2, 50 points), placed on the ball's path
brick ==
  [id |-> "breakable-brick_0", type |-> "breakable-brick", x |-> 40000, y |-> 50000,
   width |-> 4000, height |-> 2000, health |-> 2, maxHealth |-> 2, points |-> 50]

\* the payloads of UPDATE_SHIELD_BOUNCES: the 5 of applyPowerUpEffect, and 0
ShieldBounces == {0, 5}

\* a frame of 10 reference frames (a stalled tab): the launched ball passes the
\* platform and meets the floor
PowerUpDeltaTimes == {30, 100}

PowerUpActions ==
  { Action("START_GAME", NoPayload, "caller"),
    Action("LAUNCH_BALL", [angle |-> 90, power |-> 8], "caller"),
    Action("SPAWN_OBSTACLE", brick, "caller"),
    Action("UPDATE_OBSTACLE", [brick EXCEPT !.health = 1], "caller"),
    Action("REMOVE_OBSTACLE", [id |-> brick.id], "caller") }
  \cup { Action("SPAWN_POWERUP", createPowerUp(type, 0), "caller") : type \in PowerUpTypes }
  \cup { Action("COLLECT_POWERUP", [id |-> createPowerUp(type, 0).id], "caller") :
           type \in PowerUpTypes }
  \cup { Action("ACTIVATE_POWERUP", createPowerUp(type, 0), "caller") : type \in PowerUpTypes }
  \cup { Action("DEACTIVATE_POWERUP", [id |-> createPowerUp(type, 0).id], "caller") :
           type \in PowerUpTypes }
  \cup { Action("UPDATE_SHIELD_BOUNCES", [count |-> count], "caller") :
           count \in ShieldBounces }
  \cup { Action("TICK", [deltaTime |-> deltaTime], "caller") :
           deltaTime \in PowerUpDeltaTimes }

DispatchPowerUp ==
  /\ queue = <<>>
  /\ now < MaxDispatches
  /\ \E action \in PowerUpActions : queue' = <<action>>
  /\ now' = now + 1
  /\ UNCHANGED <<gameData, rendered, last, bounced, spawnTimer, serverVars, utilVars>>

NextPowerUps ==
  \/ DispatchPowerUp
  \/ Apply

SpecPowerUps == Init /\ [][NextPowerUps]_vars

\* checkPowerUpCollisions: the ball is within radius + 15 of the power-up
InPowerUpRange(ball, p) ==
  LET dx == ball.position.x - p.x
      dy == ball.position.y - p.y
      reach == ball.radius + 1500
  IN dx * dx + dy * dy < reach * reach

\* deactivateExpiredPowerUps: the power-up's duration has run out
Expired(p, currentTime) == currentTime - p.startTime >= p.duration

\* checkObstacleCollisions: the ball's bounding box overlaps the obstacle
Overlaps(ball, obstacle) ==
  /\ ball.position.x - ball.radius < obstacle.x + obstacle.width \div 2
  /\ ball.position.x + ball.radius > obstacle.x - obstacle.width \div 2
  /\ ball.position.y - ball.radius < obstacle.y + obstacle.height \div 2
  /\ ball.position.y + ball.radius > obstacle.y - obstacle.height \div 2

(***************************************************************************)
(* usePowerUps: the spawn effect (the hook's first useEffect), over the    *)
(* game as wired.  Its dependencies are the rendered phase, dispatch and   *)
(* config; the last two never change while the phase stays the same.  The  *)
(* cleanup and the effect run with the render that changes the phase.      *)
(***************************************************************************)
\* 15000 + Math.random() * 10000 ms: the ends of the range, in seconds
SpawnIntervals == {15, 25}

\* clearTimeout(powerUpSpawnTimer.current): a timeout not pending is left as it is
clearTimeout(timer) ==
  IF timer.state = "armed" THEN [timer EXCEPT !.state = "cleared"] ELSE timer

\* the spawn effect with neither the cleanup nor the clearTimeout of its else branch
spawnEffect_keepsTimer(before, after, timer, spawnInterval, currentTime) ==
  IF before = after THEN timer
  ELSE IF after = "PLAYING"
       THEN [state |-> "armed", due |-> currentTime + spawnInterval]
       ELSE timer

\* a render with the phase changed from before to after: the cleanup of the
\* effect's last run, then the effect
spawnEffect(before, after, timer, spawnInterval, currentTime) ==
  IF before = after THEN timer
  ELSE IF after = "PLAYING"
       THEN [state |-> "armed", due |-> currentTime + spawnInterval]
       ELSE clearTimeout(clearTimeout(timer))

\* React applies an updater; the render that follows runs the spawn effect
ApplySpawn ==
  /\ Commit
  /\ \E spawnInterval \in SpawnIntervals :
       spawnTimer' = spawnEffect(rendered.gameState, rendered'.gameState, spawnTimer,
                                 spawnInterval, now)
  /\ UNCHANGED <<serverVars, utilVars>>

\* the timeout's callback: dispatch SPAWN_POWERUP with spawnRandomPowerUp(config)
spawnTimeout ==
  /\ spawnTimer.state = "armed"
  /\ now >= spawnTimer.due
  /\ queue = <<>>
  /\ \E type \in PowerUpTypes :
       queue' = <<Action("SPAWN_POWERUP", createPowerUp(type, now), "timer")>>
  /\ spawnTimer' = [spawnTimer EXCEPT !.state = "fired"]
  /\ UNCHANGED <<gameData, rendered, now, last, bounced, serverVars, utilVars>>

NextSpawn ==
  \/ handleStartGame
  \/ handleResumeGame
  \/ handleResetGame
  \/ handleKeyDown
  \/ handleMouseDown
  \/ handleMouseMove
  \/ handleMouseUp
  \/ Frame
  \/ ApplySpawn
  \/ Elapse
  \/ spawnTimeout

SpecSpawn == Init /\ [][NextSpawn]_vars

(***************************************************************************)
(* Server: POST /api/game/highscore.  The handler awaits redis.get, then   *)
(* compares, then awaits redis.set; between the awaits other requests run. *)
(* Redis holds strings: a string is the sequence of its decimal digits.    *)
(***************************************************************************)
\* the scores of the request bodies
Scores == {5, 10, 12}

\* score.toString(), of a whole number that is not negative
RECURSIVE toString(_)
toString(n) == IF n < 10 THEN <<n>> ELSE Append(toString(n \div 10), n % 10)

\* parseInt(string), of a string of digits
RECURSIVE parseInt(_)
parseInt(string) ==
  IF string = <<>> THEN 0
  ELSE parseInt(SubSeq(string, 1, Len(string) - 1)) * 10 + string[Len(string)]

\* currentHighScore ? parseInt(currentHighScore) : 0
currentHighOf(currentHighScore) ==
  IF currentHighScore # <<>> THEN parseInt(currentHighScore) ELSE 0

\* what the key holds before the requests: nothing, or an earlier high score
StoredHighScores == {<<>>, toString(7)}

\* the request arrives: the handler reads the body and calls redis.get
postHighScore(r) ==
  /\ requests[r].pc = "new"
  /\ \E score \in Scores :
       requests' = [requests EXCEPT ![r].pc = "get", ![r].score = score]
  /\ UNCHANGED <<gameVars, spawnTimer, redis, priorHighScore, utilVars>>

\* redis.get('highScore') resolves
redisGet(r) ==
  /\ requests[r].pc = "get"
  /\ requests' = [requests EXCEPT ![r].pc = "got", ![r].currentHigh = currentHighOf(redis)]
  /\ UNCHANGED <<gameVars, spawnTimer, redis, priorHighScore, utilVars>>

\* the comparison, and redis.set and the response that follow it
redisSet(r) ==
  /\ requests[r].pc = "got"
  /\ IF requests[r].score > requests[r].currentHigh
     THEN /\ redis' = toString(requests[r].score)
          /\ requests' = [requests EXCEPT ![r].pc = "done", ![r].success = TRUE]
     ELSE /\ redis' = redis
          /\ requests' = [requests EXCEPT ![r].pc = "done", ![r].success = FALSE]
  /\ UNCHANGED <<gameVars, spawnTimer, priorHighScore, utilVars>>

NextServer ==
  \E r \in Requests :
    \/ postHighScore(r)
    \/ redisGet(r)
    \/ redisSet(r)

ServerInit == \E stored \in StoredHighScores : InitGame /\ InitServer(stored)

SpecServer == ServerInit /\ [][NextServer]_vars

(***************************************************************************)
(* The helpers of gameLogic.ts and powerUps.ts called on their own, each   *)
(* with arguments drawn from small sets; call holds the last call.        *)
(***************************************************************************)
\* the levels asked for: below the first, the five configured, beyond the last
ObstacleLevels == 0..7

Call(fn, args, result) == [fn |-> fn, args |-> args, result |-> result]

\* what a helper's call leaves alone
helperFrame == <<gameVars, spawnTimer, serverVars, achievements>>

callSpawnLevelObstacles ==
  /\ \E level \in ObstacleLevels :
       call' = Call("spawnLevelObstacles", [level |-> level],
                    spawnLevelObstacles(level, config))
  /\ UNCHANGED helperFrame

\* the ball before the wall check: left of the canvas, on its edges, inside,
\* right of it; moving left, at rest, moving right
WallXs == {-5000, 0, 1999, 2000, 2001, 40000, 77999, 78000, 78001, 80000, 90000}
WallVxs == {-2000, -100, 0, 100, 2000}

callCheckWallCollision ==
  /\ \E x \in WallXs, vx \in WallVxs, level \in 1..Len(config.levels) :
       LET initial == createInitialBallPhysics(config, config.levels[level])
           ball == [initial EXCEPT !.position.x = x, !.velocity.vx = vx]
       IN call' = Call("checkWallCollision", [ball |-> ball],
                       checkWallCollision(ball, config))
  /\ UNCHANGED helperFrame

\* the payloads of UPDATE_PLATFORM_POSITION: far left, the edges, inside, far right
PlatformTargets == {-100000, -1, 0, 3999, 4000, 6000, 40000, 74000, 76000, 80000, 200000}

\* the reducer's UPDATE_PLATFORM_POSITION on a snapshot with the platform of a level
callUpdatePlatformPosition ==
  /\ \E targetX \in PlatformTargets, level \in 1..Len(config.levels) :
       LET prev == [createInitialGameData EXCEPT
                      !.platform = createInitialPlatform(config, config.levels[level])]
       IN call' = Call("UPDATE_PLATFORM_POSITION", [prev |-> prev, x |-> targetX],
                       dispatch(prev, Action("UPDATE_PLATFORM_POSITION", [x |-> targetX],
                                             "caller"), 0))
  /\ UNCHANGED helperFrame

\* the ball over the platform: its centre this far from the platform's
HitPoints == {-7000, -6999, -5000, -2500, -1, 0, 1, 2500, 5000, 6999, 7000}
HitVelocities == {[vx |-> 0, vy |-> 400], [vx |-> 300, vy |-> 400], [vx |-> -300, vy |-> 400],
                  [vx |-> 0, vy |-> -400]}

callCheckPlatformCollision ==
  /\ \E hitPoint \in HitPoints, velocity \in HitVelocities,
        level \in 1..Len(config.levels) :
       LET platform == createInitialPlatform(config, config.levels[level])
           initial == createInitialBallPhysics(config, config.levels[level])
           ball == [initial EXCEPT !.position.x = platform.x + hitPoint,
                                   !.position.y = platform.y - platform.height \div 2
                                                  - initial.radius + 100,
                                   !.velocity = velocity]
       IN call' = Call("checkPlatformCollision", [ball |-> ball, platform |-> platform],
                       checkPlatformCollision(ball, platform))
  /\ UNCHANGED helperFrame

\* hit positions in hundredths, beyond the platform's edges included, and the
\* five multipliers in tenths
ScoreHitPositions == {-140, -100, -50, -1, 0, 1, 50, 100, 140}
ScoreMultipliers == {10, 15, 20, 25, 30}

callCalculateBounceScore ==
  /\ \E surface \in {"platform", "wall", "ceiling", "floor"},
        hitPosition \in ScoreHitPositions, multiplier \in ScoreMultipliers :
       call' = Call("calculateBounceScore",
                    [surface |-> surface, hitPosition |-> hitPosition,
                     multiplier |-> multiplier],
                    calculateBounceScore(surface, hitPosition, multiplier))
  /\ UNCHANGED helperFrame

\* streaks: negative, every threshold of the function and its neighbours, beyond
ComboBounces == -2..12

\* the function at two streaks, the first not above the second
callCalculateComboMultiplier ==
  /\ \E a \in ComboBounces, b \in ComboBounces :
       /\ a <= b
       /\ call' = Call("calculateComboMultiplier", [a |-> a, b |-> b],
                       [a |-> calculateComboMultiplier(a),
                        b |-> calculateComboMultiplier(b)])
  /\ UNCHANGED helperFrame

callCreateLevelConfigs ==
  /\ call' = Call("createLevelConfigs", NoPayload, createLevelConfigs)
  /\ UNCHANGED helperFrame

\* the ball before a frame, and the frame's deltaTime
BallPositions == {[x |-> 40000, y |-> 50500], [x |-> 10000, y |-> 20000]}
BallVelocities == {[vx |-> 0, vy |-> 0], [vx |-> 0, vy |-> -160], [vx |-> 1414, vy |-> -1414],
                   [vx |-> -2000, vy |-> 1990]}

\* updateBallPhysics writes to ball.position and ball.velocity, the objects of
\* its argument, and returns a ball that holds the same two objects: after the
\* call the argument's position and velocity are the returned ones
callUpdateBallPhysics ==
  /\ \E position \in BallPositions, velocity \in BallVelocities,
        deltaTime \in PowerUpDeltaTimes, level \in 1..Len(config.levels) :
       LET initial == createInitialBallPhysics(config, config.levels[level])
           ball == [initial EXCEPT !.position = position, !.velocity = velocity]
           returned == updateBallPhysics(ball, deltaTime)
       IN call' = Call("updateBallPhysics", [ball |-> ball, deltaTime |-> deltaTime],
                       [returned |-> returned,
                        argument |-> [ball EXCEPT !.position = returned.position,
                                                  !.velocity = returned.velocity]])
  /\ UNCHANGED helperFrame

\* what useAchievements passes to checkAchievements: numbers of the game below
\* and at the targets
AchievementInputs ==
  [scoreData : [consecutiveBounces : {0, 50}, score : {0, 500, 10000}],
   bounceCount : {0, 1, 100},
   level : {1, 5},
   usedPowerUps : {{}, {"multi-ball", "larger-paddle", "slow-mo", "shield",
                        "score-multiplier", "magnetic-paddle"}}]

\* the effect of useAchievements: checkAchievements on the list held, and
\* setAchievements with the result
callCheckAchievements ==
  /\ \E data \in AchievementInputs :
       achievements' = checkAchievements(achievements, data, now)
  /\ UNCHANGED <<gameVars, spawnTimer, serverVars, call>>

NextHelpers ==
  \/ callSpawnLevelObstacles
  \/ callCheckWallCollision
  \/ callUpdatePlatformPosition
  \/ callCheckPlatformCollision
  \/ callCalculateBounceScore
  \/ callCalculateComboMultiplier
  \/ callCreateLevelConfigs
  \/ callUpdateBallPhysics

SpecHelpers == Init /\ [][NextHelpers]_vars

\* useAchievements on its own: its effect run with any numbers, at any time
NextAchievements ==
  \/ callCheckAchievements
  \/ Elapse

SpecAchievements == Init /\ [][NextAchievements]_vars

(***************************************************************************)
(* The reducer under the bounces of the frames and the obstacle check of   *)
(* useObstacles.  The check is an effect: it reads the snapshot of the     *)
(* last render (its closure) and dispatches at once, while updaters        *)
(* dispatched since that render may still wait.  BounceGame does not mount *)
(* useObstacles and the reducer stores no obstacle; here the check holds a *)
(* breakable brick with 1 health left that the ball overlaps.              *)
(***************************************************************************)
\* updaters that may wait at once
MaxPending == 5

ObstacleCallerActions ==
  { Action("START_GAME", NoPayload, "caller"),
    Action("LAUNCH_BALL", [angle |-> 90, power |-> 8], "caller"),
    Action("BALL_BOUNCE", [surface |-> "platform", hitPosition |-> 0], "tick"),
    Action("BALL_BOUNCE", [surface |-> "wall", hitPosition |-> 0], "tick") }

DispatchPending ==
  /\ Len(queue) < MaxPending
  /\ now < MaxDispatches
  /\ \E action \in ObstacleCallerActions : queue' = Append(queue, action)
  /\ now' = now + 1
  /\ UNCHANGED <<gameData, rendered, last, bounced, spawnTimer, serverVars, utilVars>>

\* checkObstacleCollisions, breakable-brick branch with newHealth <= 0, run by
\* the effect while the rendered phase is PLAYING
checkObstacleCollisions ==
  /\ rendered.gameState = "PLAYING"
  /\ Len(queue) + 2 <= MaxPending
  /\ now < MaxDispatches
  /\ queue' = queue \o <<Action("REMOVE_OBSTACLE", [id |-> brick.id], "effect"),
                          Action("UPDATE_SCORE",
                                 [score |-> rendered.score + brick.points], "effect")>>
  /\ now' = now + 1
  /\ UNCHANGED <<gameData, rendered, last, bounced, spawnTimer, serverVars, utilVars>>

NextObstacles ==
  \/ DispatchPending
  \/ checkObstacleCollisions
  \/ Apply

SpecObstacles == Init /\ [][NextObstacles]_vars

(***************************************************************************)
(* The game as wired, with the frame callback's time step computed from    *)
(* the time between two callbacks, and each callback recorded in call      *)
(***************************************************************************)
\* milliseconds between two frame callbacks (currentTime - lastTimeRef.current)
FrameIntervals == {1, 50}

\* (currentTime - lastTimeRef.current) / 16.67, in tenths
normalizedStep(interval) == (interval * 1000) \div 1667

\* gameLoop(currentTime) that calls setGameData whatever the time step
gameLoopCallback_alwaysTicks ==
  /\ rendered.gameState = "PLAYING"
  /\ queue = <<>>
  /\ call.fn = "gameLoop" => call.result.requested
  /\ \E interval \in FrameIntervals :
       LET deltaTime == normalizedStep(interval)
       IN /\ call' = Call("gameLoop", [interval |-> interval],
                          [deltaTime |-> deltaTime, requested |-> TRUE])
          /\ queue' = <<Action("TICK", [deltaTime |-> deltaTime], "frame")>>
  /\ UNCHANGED <<gameData, rendered, now, last, bounced, spawnTimer, serverVars, achievements>>

\* gameLoop(currentTime): the callback of a requested animation frame, run
\* while the rendered phase is PLAYING.  requested: the callback asked for the
\* next frame (both of its exits past the phase guard do)
gameLoopCallback ==
  /\ rendered.gameState = "PLAYING"
  /\ queue = <<>>
  /\ call.fn = "gameLoop" => call.result.requested
  /\ \E interval \in FrameIntervals :
       LET deltaTime == normalizedStep(interval)
       IN /\ call' = Call("gameLoop", [interval |-> interval],
                          [deltaTime |-> deltaTime, requested |-> TRUE])
          /\ queue' = IF deltaTime < 1
                      THEN queue
                      ELSE <<Action("TICK", [deltaTime |-> deltaTime], "frame")>>
  /\ UNCHANGED <<gameData, rendered, now, last, bounced, spawnTimer, serverVars, achievements>>

NextFrames ==
  \/ handleStartGame
  \/ handleResumeGame
  \/ handleResetGame
  \/ handleKeyDown
  \/ handleMouseDown
  \/ handleMouseMove
  \/ handleMouseUp
  \/ gameLoopCallback
  \/ Apply
  \/ Elapse

SpecFrames == Init /\ [][NextFrames]_vars

(***************************************************************************)
(* Properties                                                              *)
(***************************************************************************)
\* this step applies the updater at the head of the queue, and it is of this type
Applying(type) == queue # <<>> /\ Head(queue).type = type /\ queue' # queue

\* the snapshot is the result of an updater of this type
Applied(type) == last.type = type

\* the number of actions of these types in a queue
RECURSIVE Count(_, _)
Count(actions, types) ==
  IF actions = <<>> THEN 0
  ELSE (IF Head(actions).type \in types THEN 1 ELSE 0) + Count(Tail(actions), types)

\* C1: with lives = 1, the LOSE_LIFE dispatched by a PLAYING frame that detected
\* floor contact leaves lives = 0, phase GAME_OVER and
\* highScore = max(previous highScore, score).
C1_FloorGameOver ==
  [][(Applying("LOSE_LIFE") /\ Head(queue).src = "floor" /\ gameData.scoreData.lives = 1)
     => /\ gameData'.scoreData.lives = 0
        /\ gameData'.gameState = "GAME_OVER"
        /\ gameData'.scoreData.highScore
             = Max(gameData.scoreData.highScore, gameData.scoreData.score)]_vars

\* C2: in every state reached by dispatching actions and frames in any order,
\* scoreData.multiplier is calculateComboMultiplier(scoreData.consecutiveBounces).
C2_MultiplierIsFunctionOfStreak ==
  gameData.scoreData.multiplier
    = calculateComboMultiplier(gameData.scoreData.consecutiveBounces)

\* a fourth platform bounce in a row has raised the multiplier to 2
C2_Witness ==
  /\ Applied("BALL_BOUNCE")
  /\ last.prev.scoreData.consecutiveBounces = 3
  /\ gameData.scoreData.consecutiveBounces = 4
  /\ gameData.scoreData.multiplier = 20

\* C3: consecutiveBounces is 0 after every BALL_BOUNCE on a wall or the ceiling
\* and after every LOSE_LIFE, and one more after every BALL_BOUNCE on the
\* platform.
C3_StreakResets ==
  [][/\ (Applying("BALL_BOUNCE") /\ Head(queue).payload.surface \in {"wall", "ceiling"})
        => gameData'.scoreData.consecutiveBounces = 0
     /\ Applying("LOSE_LIFE") => gameData'.scoreData.consecutiveBounces = 0
     /\ (Applying("BALL_BOUNCE") /\ Head(queue).payload.surface = "platform")
        => gameData'.scoreData.consecutiveBounces
             = gameData.scoreData.consecutiveBounces + 1]_vars

\* the surfaces of the scenario of C4
BounceSurfaces == <<"platform", "platform", "platform", "wall", "platform">>

\* the recorded run follows the scenario's surfaces as far as it goes
FollowsBounceSurfaces ==
  /\ Len(bounced) <= Len(BounceSurfaces)
  /\ \A i \in 1..Len(bounced) : bounced[i].surface = BounceSurfaces[i]

\* C4 (as stated): from consecutiveBounces = 0, BALL_BOUNCE on platform,
\* platform, platform, wall, platform leaves the multipliers 1.5, 1.5, 2, 1, 1.
C4_MultipliersAsStated ==
  FollowsBounceSurfaces
    => \A i \in 1..Len(bounced) : bounced[i].multiplier = <<15, 15, 20, 10, 10>>[i]

\* C4 (amended): from consecutiveBounces = 0, BALL_BOUNCE on platform, platform,
\* platform, wall, platform leaves the multipliers 1, 1.5, 1.5, 1, 1.
C4_Multipliers ==
  FollowsBounceSurfaces
    => \A i \in 1..Len(bounced) : bounced[i].multiplier = <<10, 15, 15, 10, 10>>[i]

\* the five bounces of the scenario have been applied back to back
C4_Witness ==
  /\ FollowsBounceSurfaces
  /\ Len(bounced) = Len(BounceSurfaces)
  /\ gameData.scoreData.bounceCount = Len(BounceSurfaces)

\* C5: no step lowers scoreData.highScore, START_GAME and RESET_GAME included.
C5_HighScoreMonotonic ==
  [][gameData'.scoreData.highScore >= gameData.scoreData.highScore]_vars

\* C6: lives is in 0..3 in every state (LOSE_LIFE at lives = 0 leaves 0), and
\* LOSE_LIFE leaves the phase GAME_OVER when the resulting lives is 0, AIMING
\* otherwise.
C6_LivesAndPhase ==
  /\ [](gameData.scoreData.lives \in 0..3)
  /\ [][Applying("LOSE_LIFE")
        => /\ gameData.scoreData.lives = 0 => gameData'.scoreData.lives = 0
           /\ gameData'.gameState
                = IF gameData'.scoreData.lives = 0 THEN "GAME_OVER" ELSE "AIMING"]_vars

\* LOSE_LIFE has been applied to a snapshot with no life left and a phase other
\* than GAME_OVER
C6_Witness ==
  /\ Applied("LOSE_LIFE")
  /\ last.prev.scoreData.lives = 0
  /\ last.prev.gameState # "GAME_OVER"
  /\ gameData.scoreData.lives = 0
  /\ gameData.gameState = "GAME_OVER"

\* the frame applied in this step finds the level's time limit reached
TimeExpired ==
  now - gameData.levelStartTime >= gameData.currentLevel.timeLimit

\* C7: a PLAYING frame with timeElapsed >= timeLimit dispatches LOSE_LIFE and not
\* NEXT_LEVEL; that LOSE_LIFE takes one life, keeps the level, puts the ball at
\* the level's initial position with zero velocity, resets the aim data to its
\* defaults, and leaves AIMING if lives remain, GAME_OVER if not.
C7_TimeLimitIsLifeLoss ==
  [][/\ (Applying("TICK") /\ gameData.gameState = "PLAYING" /\ TimeExpired)
        => /\ Count(queue', {"LOSE_LIFE"}) = 1
           /\ Count(queue', {"NEXT_LEVEL"}) = 0
           /\ Head(queue').src = "time"
     /\ (Applying("LOSE_LIFE") /\ Head(queue).src = "time")
        => /\ gameData'.scoreData.lives = gameData.scoreData.lives - 1
           /\ gameData'.scoreData.level = gameData.scoreData.level
           /\ gameData'.currentLevel = gameData.currentLevel
           /\ gameData'.ballPhysics = createInitialBallPhysics(config, gameData.currentLevel)
           /\ gameData'.ballPhysics.velocity = [vx |-> 0, vy |-> 0]
           /\ gameData'.aimData = createInitialAimData(config)
           /\ gameData'.gameState
                = IF gameData'.scoreData.lives > 0 THEN "AIMING" ELSE "GAME_OVER"]_vars

\* the bounce target of the snapshot's level is reached
TargetReached(data) == data.scoreData.bounceCount >= data.currentLevel.targetBounces

C9_FinalLevelEndsGame ==
  [][(Applying("NEXT_LEVEL") /\ gameData.scoreData.level = 5)
     => /\ ~HasLevel(gameData.scoreData.level + 1)
        /\ gameData'.gameState = "GAME_OVER"
        /\ gameData'.scoreData.highScore
             = Max(gameData.scoreData.highScore, gameData.scoreData.score)
        /\ gameData'.scoreData.level = gameData.scoreData.level
        /\ gameData'.scoreData.score = gameData.scoreData.score
        /\ gameData'.scoreData.lives = gameData.scoreData.lives]_vars

\* NEXT_LEVEL has been applied on level 5 and the score is the new high score
C9_Witness ==
  /\ Applied("NEXT_LEVEL")
  /\ last.prev.scoreData.level = 5
  /\ last.prev.scoreData.highScore < last.prev.scoreData.score
  /\ gameData.gameState = "GAME_OVER"
  /\ gameData.scoreData.level = 5
  /\ gameData.scoreData.highScore = gameData.scoreData.score

C11_LevelAdvanceResets ==
  [][(Applying("NEXT_LEVEL") /\ HasLevel(gameData.scoreData.level + 1))
     => LET nextLevelConfig == FindLevel(gameData.scoreData.level + 1)
        IN /\ gameData'.scoreData.bounceCount = 0
           /\ gameData'.scoreData.timeElapsed = 0
           /\ gameData'.scoreData.consecutiveBounces = 0
           /\ gameData'.scoreData.multiplier = 10
           /\ gameData'.currentLevel = nextLevelConfig
           /\ gameData'.ballPhysics = createInitialBallPhysics(config, nextLevelConfig)
           /\ gameData'.platform = createInitialPlatform(config, nextLevelConfig)
           /\ gameData'.aimData = createInitialAimData(config)
           /\ gameData'.scoreData.score = gameData.scoreData.score
           /\ gameData'.scoreData.lives = gameData.scoreData.lives]_vars

\* NEXT_LEVEL has been applied to a snapshot with a streak, a raised multiplier,
\* time on the clock, a score and a dragged aim
C11_Witness ==
  /\ Applied("NEXT_LEVEL")
  /\ last.prev.scoreData.level = 1
  /\ last.prev.scoreData.consecutiveBounces > 0
  /\ last.prev.scoreData.multiplier > 10
  /\ last.prev.scoreData.timeElapsed > 0
  /\ last.prev.scoreData.score > 0
  /\ last.prev.aimData # createInitialAimData(config)
  /\ gameData.scoreData.level = 2
  /\ gameData.scoreData.score = last.prev.scoreData.score

\* C12: PAUSE_GAME changes the phase (to PAUSED) only in PLAYING and RESUME_GAME
\* changes it (to PLAYING) only in PAUSED; in any other phase they leave the
\* snapshot as it was.
C12_PauseResumeGuarded ==
  [][/\ Applying("PAUSE_GAME")
        => gameData' = IF gameData.gameState = "PLAYING"
                       THEN [gameData EXCEPT !.gameState = "PAUSED"] ELSE gameData
     /\ Applying("RESUME_GAME")
        => gameData' = IF gameData.gameState = "PAUSED"
                       THEN [gameData EXCEPT !.gameState = "PLAYING"] ELSE gameData]_vars

\* the values START_GAME and RESET_GAME leave, the phase apart
IsLevelOneStart(data) ==
  /\ data.scoreData.score = 0
  /\ data.scoreData.lives = 3
  /\ data.scoreData.level = 1
  /\ data.scoreData.bounceCount = 0
  /\ data.scoreData.consecutiveBounces = 0
  /\ data.scoreData.multiplier = 10
  /\ data.currentLevel = config.levels[1]
  /\ data.ballPhysics = createInitialBallPhysics(config, config.levels[1])
  /\ data.platform = createInitialPlatform(config, config.levels[1])
  /\ data.aimData = createInitialAimData(config)

\* C13: START_GAME leaves the phase AIMING and RESET_GAME leaves it MENU, from
\* any snapshot; both leave score 0, lives 3, level 1, bounceCount 0,
\* consecutiveBounces 0, multiplier 1, level 1's config, and ball, platform and
\* aim data at their level-1 initial values.
C13_StartAndResetReinitialise ==
  [][/\ Applying("START_GAME")
        => gameData'.gameState = "AIMING" /\ IsLevelOneStart(gameData')
     /\ Applying("RESET_GAME")
        => gameData'.gameState = "MENU" /\ IsLevelOneStart(gameData')]_vars

\* RESET_GAME has been applied in PLAYING on level 2 with a life lost, a moved
\* platform and a launched ball
C13_Witness ==
  /\ Applied("RESET_GAME")
  /\ last.prev.gameState = "PLAYING"
  /\ last.prev.scoreData.level = 2
  /\ last.prev.scoreData.lives < 3
  /\ last.prev.platform.x # config.canvasWidth \div 2
  /\ last.prev.ballPhysics.velocity # [vx |-> 0, vy |-> 0]
  /\ gameData.gameState = "MENU"
  /\ IsLevelOneStart(gameData)

\* the frame applied in this step moves the ball onto the floor
FloorContact ==
  checkFloorCollision(
    gameLoopCollisions(gameData, Head(queue).payload.deltaTime).newBallPhysics, config)

\* the UPDATE_SHIELD_BOUNCES actions with this count waiting in a queue
ShieldUpdates(actions, count) ==
  {i \in 1..Len(actions) : /\ actions[i].type = "UPDATE_SHIELD_BOUNCES"
                           /\ actions[i].payload.count = count}

\* C14: a PLAYING frame with floor contact, applied when the shield was just set
\* to k bounces: with k > 0 it dispatches no LOSE_LIFE, keeps the phase and the
\* lives and sets the shield to k - 1; with k = 0 it dispatches LOSE_LIFE.
C14_ShieldAbsorbsFloor ==
  [][(/\ Applying("TICK")
      /\ gameData.gameState = "PLAYING"
      /\ ~TimeExpired
      /\ FloorContact
      /\ Applied("UPDATE_SHIELD_BOUNCES"))
     => IF last.payload.count > 0
        THEN /\ Count(queue', {"LOSE_LIFE", "GAME_OVER"}) = 0
             /\ gameData'.gameState = "PLAYING"
             /\ gameData'.scoreData.lives = gameData.scoreData.lives
             /\ ShieldUpdates(queue', last.payload.count - 1) # {}
        ELSE Count(queue', {"LOSE_LIFE"}) = 1]_vars

\* the actions of this type about this power-up waiting in a queue
PowerUpUpdates(actions, type, id) ==
  {i \in 1..Len(actions) : actions[i].type = type /\ actions[i].payload.id = id}

\* C15: the first frame that leaves the ball within radius + 15 of a power-up
\* just spawned dispatches COLLECT_POWERUP and ACTIVATE_POWERUP for it once each
\* and, for a shield, its effect (UPDATE_SHIELD_BOUNCES 5) once; a frame applied
\* to a power-up already activated dispatches no further COLLECT_POWERUP or
\* ACTIVATE_POWERUP.
C15_CollectedOnce ==
  [][/\ (/\ Applying("TICK")
         /\ gameData.gameState = "PLAYING"
         /\ gameData'.gameState = "PLAYING"
         /\ Applied("SPAWN_POWERUP")
         /\ InPowerUpRange(gameData'.ballPhysics, last.payload))
        => /\ Cardinality(PowerUpUpdates(queue', "COLLECT_POWERUP", last.payload.id)) = 1
           /\ Cardinality(PowerUpUpdates(queue', "ACTIVATE_POWERUP", last.payload.id)) = 1
           /\ last.payload.type = "shield" => Cardinality(ShieldUpdates(queue', 5)) = 1
     /\ (Applying("TICK") /\ Applied("ACTIVATE_POWERUP"))
        => Count(queue', {"COLLECT_POWERUP", "ACTIVATE_POWERUP"}) = 0]_vars

\* C16: a PLAYING frame applied to a duration-based power-up just activated and
\* by now expired (now - startTime >= duration) dispatches DEACTIVATE_POWERUP
\* for it.
C16_ExpiredDeactivated ==
  [][(/\ Applying("TICK")
      /\ gameData.gameState = "PLAYING"
      /\ Applied("ACTIVATE_POWERUP")
      /\ last.payload.type # "shield"
      /\ Expired(last.payload, now))
     => PowerUpUpdates(queue', "DEACTIVATE_POWERUP", last.payload.id) # {}]_vars

\* C19: a PLAYING frame that leaves the ball overlapping a breakable brick just
\* spawned with health 2 dispatches UPDATE_OBSTACLE with health 1 and no
\* REMOVE_OBSTACLE; one that finds the brick just set to health 1 dispatches
\* REMOVE_OBSTACLE and UPDATE_SCORE with the score plus the brick's 50 points,
\* once each.
C19_BrickBreaks ==
  [][/\ (/\ Applying("TICK")
         /\ gameData.gameState = "PLAYING"
         /\ gameData'.gameState = "PLAYING"
         /\ Applied("SPAWN_OBSTACLE")
         /\ last.payload.type = "breakable-brick"
         /\ last.payload.health = 2
         /\ Overlaps(gameData'.ballPhysics, last.payload))
        => /\ \E i \in 1..Len(queue') :
                /\ queue'[i].type = "UPDATE_OBSTACLE"
                /\ queue'[i].payload = [last.payload EXCEPT !.health = 1]
           /\ Count(queue', {"UPDATE_OBSTACLE"}) = 1
           /\ Count(queue', {"REMOVE_OBSTACLE"}) = 0
     /\ (/\ Applying("TICK")
         /\ gameData.gameState = "PLAYING"
         /\ gameData'.gameState = "PLAYING"
         /\ Applied("UPDATE_OBSTACLE")
         /\ last.payload.type = "breakable-brick"
         /\ last.payload.health = 1
         /\ Overlaps(gameData'.ballPhysics, last.payload))
        => /\ Count(queue', {"REMOVE_OBSTACLE"}) = 1
           /\ \E i \in 1..Len(queue') :
                /\ queue'[i].type = "UPDATE_SCORE"
                /\ queue'[i].payload
                     = [score |-> gameData.scoreData.score + last.payload.points]
           /\ Count(queue', {"UPDATE_SCORE"}) = 1]_vars

\* this step dispatches SPAWN_POWERUP
Spawning == Count(queue', {"SPAWN_POWERUP"}) > Count(queue, {"SPAWN_POWERUP"})

C18_SpawnsRecur ==
  (Applied("SPAWN_POWERUP") /\ queue = <<>> /\ rendered.gameState = "PLAYING")
    => /\ spawnTimer.state = "armed"
       /\ spawnTimer.due >= last.payload.startTime + 15
       /\ spawnTimer.due <= last.payload.startTime + 25

\* the largest of a set of numbers
MaxOf(numbers) == CHOOSE n \in numbers : \A m \in numbers : m <= n

\* no request is between its arrival and its response
Quiescent == \A r \in Requests : requests[r].pc \in {"new", "done"}

\* C20: under any interleaving of the requests, no step lowers the stored high
\* score, and when every request received has been answered the stored high
\* score is the maximum of the prior one and the scores submitted.
C20_HighScoreNeverLost ==
  /\ [][currentHighOf(redis') >= currentHighOf(redis)]_vars
  /\ [](Quiescent
          => currentHighOf(redis)
               = MaxOf({currentHighOf(priorHighScore)}
                       \cup {requests[r].score : r \in {q \in Requests : requests[q].pc = "done"}}))

\* how many obstacles of a type a list holds
ObstaclesOf(obstacles, type) ==
  Cardinality({i \in 1..Len(obstacles) : obstacles[i].type = type})

\* C21: spawnLevelObstacles(level) returns min(level - 1, 3) static blocks from
\* level 2, one moving barrier from level 3, two breakable bricks of health 2
\* and 50 points from level 4, one speed-boost zone from level 5, nothing else,
\* and nothing for level 1.
C21_ObstaclesPerLevel ==
  call.fn = "spawnLevelObstacles"
    => LET level == call.args.level
           obstacles == call.result
           static == IF level >= 2 THEN Min(level - 1, 3) ELSE 0
           barriers == IF level >= 3 THEN 1 ELSE 0
           bricks == IF level >= 4 THEN 2 ELSE 0
           boosts == IF level >= 5 THEN 1 ELSE 0
       IN /\ ObstaclesOf(obstacles, "static-block") = static
          /\ ObstaclesOf(obstacles, "moving-barrier") = barriers
          /\ ObstaclesOf(obstacles, "breakable-brick") = bricks
          /\ ObstaclesOf(obstacles, "speed-boost") = boosts
          /\ Len(obstacles) = static + barriers + bricks + boosts
          /\ \A i \in 1..Len(obstacles) :
               obstacles[i].type = "breakable-brick"
                 => obstacles[i].health = 2 /\ obstacles[i].points = 50
          /\ level = 1 => obstacles = <<>>

\* level 5 was asked for: 3 static blocks, 1 barrier, 2 bricks, 1 speed boost
C21_Witness ==
  /\ call.fn = "spawnLevelObstacles"
  /\ call.args.level = 5
  /\ Len(call.result) = 7

\* C22: after checkWallCollision the ball's x is in
\* [radius, canvasWidth - radius], whatever its x and velocity were before.
C22_WallKeepsBallInside ==
  call.fn = "checkWallCollision"
    => /\ call.result.x >= call.args.ball.radius
       /\ call.result.x <= config.canvasWidth - call.args.ball.radius

\* a ball centred 100 px right of the canvas, moving right, was put at
\* canvasWidth - radius
C22_Witness ==
  /\ call.fn = "checkWallCollision"
  /\ call.args.ball.position.x = 90000
  /\ call.args.ball.velocity.vx = 2000
  /\ call.result.hit
  /\ call.result.x = 78000

\* C23: after UPDATE_PLATFORM_POSITION with any x, negative and beyond the
\* canvas included, platform.x is in [width/2 + 10, canvasWidth - width/2 - 10],
\* the platform is wholly inside the canvas, and its width, y, height and speed,
\* and the rest of the snapshot, are as before.
C23_PlatformStaysInside ==
  call.fn = "UPDATE_PLATFORM_POSITION"
    => LET before == call.args.prev.platform
           after == call.result.platform
       IN /\ after.x >= before.width \div 2 + 1000
          /\ after.x <= config.canvasWidth - before.width \div 2 - 1000
          /\ after.x - after.width \div 2 >= 0
          /\ after.x + after.width \div 2 <= config.canvasWidth
          /\ after = [before EXCEPT !.x = after.x]
          /\ call.result = [call.args.prev EXCEPT !.platform = after]

\* the platform of level 5 (60 px) asked to x = -1000 px was put at 40 px
C23_Witness ==
  /\ call.fn = "UPDATE_PLATFORM_POSITION"
  /\ call.args.x = -100000
  /\ call.args.prev.platform.width = 6000
  /\ call.result.platform.x = 4000

\* the hit positions of the platform bounces waiting in a queue
PlatformHitPositions(actions) ==
  {actions[i].payload.hitPosition :
     i \in {j \in 1..Len(actions) : /\ actions[j].type = "BALL_BOUNCE"
                                    /\ actions[j].payload.surface = "platform"}}

\* C24: every hitPosition reported by a platform hit, by checkPlatformCollision
\* and in the BALL_BOUNCE a frame dispatches, is in [-1, 1].
C24_HitPositionNormalised ==
  [][Applying("TICK") => \A hitPosition \in PlatformHitPositions(queue') :
                           hitPosition >= -100 /\ hitPosition <= 100]_vars

\* C25: a platform hit scores at most the score of a centre hit, which is the
\* base 10 plus the full bonus 5 times the multiplier, rounded down; and a hit
\* at the platform's centre (hitPosition 0) leaves vx as it was.
C25_CentreHitIsBest ==
  /\ (call.fn = "calculateBounceScore" /\ call.args.surface = "platform")
       => /\ call.result <= (1500 * call.args.multiplier) \div 1000
          /\ call.args.hitPosition = 0
               => call.result = (1500 * call.args.multiplier) \div 1000
  /\ (/\ call.fn = "checkPlatformCollision"
      /\ call.result.hit
      /\ call.args.ball.position.x = call.args.platform.x)
       => /\ call.result.hitPosition = 0
          /\ call.result.newVelocity.vx = call.args.ball.velocity.vx

\* a centre hit at multiplier 1 scored 15
C25_Witness ==
  /\ call.fn = "calculateBounceScore"
  /\ call.args = [surface |-> "platform", hitPosition |-> 0, multiplier |-> 10]
  /\ call.result = 15

\* C26: for streaks a <= b the multiplier of a is at most the multiplier of b,
\* and every multiplier is in [1, 3].
C26_MultiplierMonotonic ==
  call.fn = "calculateComboMultiplier"
    => /\ call.result.a <= call.result.b
       /\ call.result.a >= 10 /\ call.result.a <= 30
       /\ call.result.b >= 10 /\ call.result.b <= 30

\* the function was taken at 10 and at 11 bounces: 2.5 and 3
C26_Witness ==
  /\ call.fn = "calculateComboMultiplier"
  /\ call.args = [a |-> 10, b |-> 11]
  /\ call.result = [a |-> 25, b |-> 30]

\* C27: over any sequence of checkAchievements calls, the progress of every
\* achievement never decreases, unlocked never returns from true to false, and
\* unlockedAt is undefined until the call that first unlocks the achievement,
\* takes that call's time, and keeps it from then on.
C27_AchievementsLatch ==
  [][\A i \in 1..Len(achievements) :
       /\ achievements'[i].progress >= achievements[i].progress
       /\ achievements[i].unlocked => achievements'[i].unlocked
       /\ achievements[i].unlocked
            => achievements'[i].unlockedAt = achievements[i].unlockedAt
       /\ (~achievements[i].unlocked /\ achievements'[i].unlocked)
            => achievements'[i].unlockedAt = <<now>>
       /\ ~achievements'[i].unlocked => achievements'[i].unlockedAt = <<>>]_vars

\* first_bounce was unlocked at time 0 and is still dated 0 when high_scorer
\* is unlocked at time 60
C27_Witness ==
  /\ now = 60
  /\ achievements[1].unlocked /\ achievements[1].unlockedAt = <<0>>
  /\ achievements[4].unlocked /\ achievements[4].unlockedAt = <<60>>
  /\ ~achievements[2].unlocked

\* C28: createLevelConfigs returns 5 levels, numbered 1 to 5, and each level
\* after the first has a smaller platformWidth, a higher ballSpeed,
\* platformSpeed and gravity, more targetBounces and a shorter timeLimit than
\* the level before it.
C28_LevelsGetHarder ==
  call.fn = "createLevelConfigs"
    => /\ Len(call.result) = 5
       /\ \A n \in 1..5 : call.result[n].level = n
       /\ \A n \in 2..5 :
            /\ call.result[n].platformWidth < call.result[n - 1].platformWidth
            /\ call.result[n].ballSpeed > call.result[n - 1].ballSpeed
            /\ call.result[n].platformSpeed > call.result[n - 1].platformSpeed
            /\ call.result[n].gravity > call.result[n - 1].gravity
            /\ call.result[n].targetBounces > call.result[n - 1].targetBounces
            /\ call.result[n].timeLimit < call.result[n - 1].timeLimit

\* the configs were built: level 1 has a platform of 100 and level 5 one of 60
C28_Witness ==
  /\ call.fn = "createLevelConfigs"
  /\ call.result[1].platformWidth = 10000
  /\ call.result[5].platformWidth = 6000

\* C29: a tick applied while the phase is not PLAYING leaves the whole snapshot
\* as it was and dispatches no action (nothing joins the queue), whether it
\* was dispatched in that phase or scheduled by a frame while PLAYING and
\* applied after the phase changed.
C29_TickOutsidePlayingIsNoop ==
  [][(Applying("TICK") /\ gameData.gameState # "PLAYING")
       => /\ gameData' = gameData
          /\ queue' = Tail(queue)]_vars

\* a frame scheduled while PLAYING was applied after PAUSE_GAME: the snapshot
\* is the paused one and no update is waiting
C29_Witness ==
  /\ last.type = "TICK"
  /\ last.src = "frame"
  /\ last.outcome = "inactive"
  /\ last.prev.gameState = "PAUSED"
  /\ gameData = last.prev
  /\ queue = <<>>

\* C30: updateBallPhysics does not modify its input: after the call the ball
\* passed in has the position and the velocity it had before the call.
C30_IntegratorKeepsInput ==
  call.fn = "updateBallPhysics"
    => /\ call.result.argument.position = call.args.ball.position
       /\ call.result.argument.velocity = call.args.ball.velocity

\* the score of one bounce as the scoring rule states it: base 10, for a
\* platform hit a bonus of max(0, 1 - |hitPosition|) * 5, times the multiplier,
\* rounded down
BounceScoreRule(surface, hitPosition, multiplier) ==
  LET bonus == IF surface = "platform"
               THEN (IF Abs(hitPosition) >= 100 THEN 0 ELSE 100 - Abs(hitPosition)) * 5
               ELSE 0
  IN ((1000 + bonus) * multiplier) \div 1000

\* C31: BALL_BOUNCE adds floor((10 + bonus) * m) to the score, bonus being
\* max(0, 1 - |hitPosition|) * 5 on the platform and 0 on the other surfaces,
\* and m the multiplier of the snapshot the bounce is applied to.
C31_BounceScore ==
  [][Applying("BALL_BOUNCE")
       => gameData'.scoreData.score
            = gameData.scoreData.score
              + BounceScoreRule(Head(queue).payload.surface,
                                Head(queue).payload.hitPosition,
                                gameData.scoreData.multiplier)]_vars

\* a platform bounce was applied at multiplier 1 and left multiplier 1.5: it
\* scored 15, not 22
C31_Witness ==
  /\ Applied("BALL_BOUNCE")
  /\ last.payload.surface = "platform"
  /\ last.prev.scoreData.multiplier = 10
  /\ gameData.scoreData.multiplier = 15
  /\ gameData.scoreData.score = last.prev.scoreData.score + 15

\* the ball's bounding box overlaps the platform's
OverlapsPlatform(ball, platform) ==
  /\ ball.position.x + ball.radius > platform.x - platform.width \div 2
  /\ ball.position.x - ball.radius < platform.x + platform.width \div 2
  /\ ball.position.y + ball.radius > platform.y - platform.height \div 2
  /\ ball.position.y - ball.radius < platform.y + platform.height \div 2

\* the frame being applied registers a platform hit
PlatformHit == Applying("TICK") /\ PlatformHitPositions(queue') # {}

\* C32: a frame registers a platform hit only when the ball it integrated
\* overlaps the platform and moves down (vy > 0); after the frame the ball's
\* bottom edge is at the platform's top edge and vy <= 0.
C32_PlatformHitOnlyDownwards ==
  [][PlatformHit
       => LET integrated == updateBallPhysics(gameData.ballPhysics,
                                              Head(queue).payload.deltaTime)
          IN /\ gameData.gameState = "PLAYING"
             /\ integrated.velocity.vy > 0
             /\ OverlapsPlatform(integrated, gameData.platform)
             /\ gameData'.ballPhysics.position.y + gameData'.ballPhysics.radius
                  = gameData'.platform.y - gameData'.platform.height \div 2
             /\ gameData'.ballPhysics.velocity.vy <= 0]_vars

\* C33: BALL_BOUNCE adds 1 to comboCount exactly when it leaves
\* consecutiveBounces strictly greater than it found it, and leaves comboCount
\* alone otherwise; besides BALL_BOUNCE only START_GAME and RESET_GAME change
\* comboCount.
C33_ComboCount ==
  [][/\ Applying("BALL_BOUNCE")
          => gameData'.scoreData.comboCount
               = IF gameData'.scoreData.consecutiveBounces
                      > gameData.scoreData.consecutiveBounces
                 THEN gameData.scoreData.comboCount + 1
                 ELSE gameData.scoreData.comboCount
     /\ gameData'.scoreData.comboCount # gameData.scoreData.comboCount
          => /\ queue # <<>>
             /\ Head(queue).type \in {"BALL_BOUNCE", "START_GAME", "RESET_GAME"}]_vars

\* a wall bounce was applied after a platform bounce: comboCount stayed 1
C33_Witness ==
  /\ Applied("BALL_BOUNCE")
  /\ last.payload.surface = "wall"
  /\ last.prev.scoreData.consecutiveBounces = 1
  /\ gameData.scoreData.consecutiveBounces = 0
  /\ last.prev.scoreData.comboCount = 1
  /\ gameData.scoreData.comboCount = 1

\* the step is a frame callback whose time step is below 0.1
SmallFrame ==
  /\ call' # call
  /\ call'.fn = "gameLoop"
  /\ call'.result.deltaTime < 1

\* C34: a frame callback whose normalized time step is below 0.1 leaves the
\* snapshot unchanged, dispatches no action, and asks for the next frame.
C34_SmallStepIsNoop ==
  [][SmallFrame => /\ gameData' = gameData
                   /\ queue' = queue
                   /\ rendered' = rendered
                   /\ call'.result.requested]_vars

\* a callback 1 ms after the last one ran while the ball was in flight: the
\* ball is where the frame before left it and nothing waits
C34_Witness ==
  /\ call.fn = "gameLoop"
  /\ call.args.interval = 1
  /\ call.result.deltaTime = 0
  /\ gameData.gameState = "PLAYING"
  /\ Applied("TICK")
  /\ last.outcome = "running"
  /\ queue = <<>>

\* C35: the phase leaves GAME_OVER only by START_GAME or RESET_GAME, and the
\* phase is never PLAYING with lives = 0.
C35_GameOverIsFinal ==
  /\ [][(gameData.gameState = "GAME_OVER" /\ gameData'.gameState # "GAME_OVER")
          => /\ queue # <<>>
             /\ Head(queue).type \in {"START_GAME", "RESET_GAME"}]_vars
  /\ [](gameData.gameState = "PLAYING" => gameData.scoreData.lives > 0)

LifeLossFrame ==
  /\ Applying("TICK")
  /\ \E i \in 1..Len(queue') : queue'[i].type = "LOSE_LIFE"

\* C37: a frame that ends in a life loss (floor contact or time limit)
\* dispatches LOSE_LIFE alone, no BALL_BOUNCE from a platform, wall or ceiling
\* contact of that frame: scoreData changes by the lost life only.
C37_LifeLossWithoutBounce ==
  [][LifeLossFrame
       => /\ gameData'.scoreData = gameData.scoreData
          /\ Count(queue', {"BALL_BOUNCE"}) = Count(Tail(queue), {"BALL_BOUNCE"})
          /\ Count(queue', {"LOSE_LIFE"}) = Count(Tail(queue), {"LOSE_LIFE"}) + 1]_vars

\* C38: every BALL_BOUNCE, on any surface, adds exactly 1 to bounceCount;
\* LOSE_LIFE leaves bounceCount as it is; bounceCount changes otherwise only
\* to 0, by a NEXT_LEVEL that advances the level, START_GAME or RESET_GAME.
C38_BounceCount ==
  [][/\ Applying("BALL_BOUNCE")
          => gameData'.scoreData.bounceCount = gameData.scoreData.bounceCount + 1
     /\ Applying("LOSE_LIFE")
          => gameData'.scoreData.bounceCount = gameData.scoreData.bounceCount
     /\ (gameData'.scoreData.bounceCount # gameData.scoreData.bounceCount
         /\ ~Applying("BALL_BOUNCE"))
          => /\ gameData'.scoreData.bounceCount = 0
             /\ queue # <<>>
             /\ Head(queue).type \in {"NEXT_LEVEL", "START_GAME", "RESET_GAME"}
             /\ Head(queue).type = "NEXT_LEVEL"
                  => gameData'.scoreData.level = gameData.scoreData.level + 1]_vars

\* a life was lost after a wall bounce and a ceiling bounce: both are counted
\* (no platform bounce was: comboCount is 0) and the count is kept
C38_Witness ==
  /\ Applied("LOSE_LIFE")
  /\ gameData.scoreData.lives = last.prev.scoreData.lives - 1
  /\ last.prev.scoreData.bounceCount = 2
  /\ gameData.scoreData.bounceCount = 2
  /\ gameData.scoreData.comboCount = 0

C40_LevelConsistent ==
  /\ gameData.scoreData.level \in 1..5
  /\ gameData.currentLevel = createLevelConfigs[gameData.scoreData.level]
  /\ gameData.currentLevel.level = gameData.scoreData.level
  /\ gameData.ballPhysics.gravity = gameData.currentLevel.gravity
  /\ gameData.ballPhysics.bounceCoefficient = gameData.currentLevel.bounceCoefficient
  /\ gameData.platform.speed = gameData.currentLevel.platformSpeed

\* a life was lost on level 3: the ball was put back with the gravity and the
\* bounce coefficient of level 3
C40_Witness ==
  /\ Applied("LOSE_LIFE")
  /\ gameData.scoreData.level = 3
  /\ gameData.currentLevel.level = 3
  /\ gameData.ballPhysics.gravity = 1020
  /\ gameData.ballPhysics.bounceCoefficient = 80
  /\ gameData.platform.speed = 1000

====
